---- MODULE Spec2Model ----
(***************************************************************************)
(* A model of pypedream's stage/input/output binding model and of the      *)
(* Pipeline execution loop (pypedream/core/stages.py and                   *)
(* pypedream/core/pipelines.py).                                           *)
(***************************************************************************)
EXTENDS Integers, Sequences, FiniteSets, TLC

\* ------------------------------------------------------------------------
\* Bounds
\* ------------------------------------------------------------------------
\* Integer results of stage functions are kept in 0 .. ValMod - 1.
ValMod == 3

\* ------------------------------------------------------------------------
\* Python values, tagged by their type
\* ------------------------------------------------------------------------
IntV(x) == [t |-> "int", v |-> x]
SeqV(s) == [t |-> "seq", v |-> s]
DictV(d) == [t |-> "dict", v |-> d]
StrV(s) == [t |-> "str", v |-> s]
NoneV == [t |-> "none", v |-> 0]

\* The empty dict.
EmptyMap == [k \in {} |-> NoneV]

\* dict.update: the entries of e replace those of d.
Update(d, e) == e @@ d

\* Outcome of a call: a returned value or a raised exception.
Ok(v) == [ok |-> TRUE, val |-> v, exc |-> [type |-> "none", error |-> FALSE, cause |-> "none", msg |-> ""]]
Raise(type, error, cause) ==
    [ok |-> FALSE, val |-> NoneV, exc |-> [type |-> type, error |-> error, cause |-> cause, msg |-> ""]]
\* raise type(msg)
RaiseMsg(type, msg) ==
    [ok |-> FALSE, val |-> NoneV, exc |-> [type |-> type, error |-> FALSE, cause |-> "none", msg |-> msg]]

\* ------------------------------------------------------------------------
\* Constants of pypedream/core/stages.py
\* ------------------------------------------------------------------------
DEFAULT_OUTPUT_KEY == "return"
EXTRA_MAPPING_KEY == "_extra"
INPUT_NOT_FOUND == StrV("INPUT NOT FOUND")
UNBOUND == StrV("UNBOUND")

STRICT == "STRICT"
CHILL == "CHILL"
PRESERVE == "PRESERVE"
WARN_UNEXPECTED == "WARN_UNEXPECTED"

\* ------------------------------------------------------------------------
\* Output mappers.  A mapper's outcome carries the mapping and whether a
\* warning was emitted.
\* ------------------------------------------------------------------------
MapOk(m, w) == [ok |-> TRUE, val |-> m, warned |-> w, exc |-> Ok(NoneV).exc]
MapRaise(type) == [ok |-> FALSE, val |-> EmptyMap, warned |-> FALSE, exc |-> Raise(type, FALSE, "none").exc]
MapRaiseMsg(type, msg) ==
    [ok |-> FALSE, val |-> EmptyMap, warned |-> FALSE, exc |-> RaiseMsg(type, msg).exc]

Min(a, b) == IF a < b THEN a ELSE b

\* {k: v for k, v in zip(keys, x)}: a later duplicate key wins.
ZipDict(keys, x) ==
    LET n == Min(Len(keys), Len(x))
        ks == {keys[i] : i \in 1..n}
        last(k) == CHOOSE i \in 1..n : keys[i] = k /\ \A j \in 1..n : keys[j] = k => j <= i
    IN [k \in ks |-> IntV(x[last(k)])]

DEFAULT_OUTPUT_MAPPER(output) == MapOk((DEFAULT_OUTPUT_KEY :> output), FALSE)

\* Variant of SequentialOutputMapper._handle_unexpected whose PRESERVE keeps
\* no remainder.
SequentialHandleUnexpected_DropsRest(keys, behaviour, x) ==
    IF STRICT \in behaviour
    THEN MapRaiseMsg("ValueError", "does not match")
    ELSE MapOk(ZipDict(keys, x), WARN_UNEXPECTED \in behaviour)

\* SequentialOutputMapper._handle_unexpected, x a sequence of another length
SequentialHandleUnexpected(keys, behaviour, x) ==
    LET seqlen == Len(x)
        keylen == Len(keys)
        longer == seqlen > keylen
        mapping == ZipDict(keys, x)
        warns == WARN_UNEXPECTED \in behaviour
    IN  CASE behaviour = {STRICT} -> MapRaiseMsg("ValueError", "does not match")
          [] STRICT \notin behaviour /\ CHILL \in behaviour -> MapOk(mapping, warns)
          [] STRICT \notin behaviour /\ CHILL \notin behaviour /\ PRESERVE \in behaviour ->
                MapOk(IF longer
                      THEN Update(mapping, (EXTRA_MAPPING_KEY :> SeqV(SubSeq(x, keylen + 1, seqlen))))
                      ELSE mapping, warns)
          [] OTHER -> MapRaiseMsg("ValueError", "Invalid behaviour value")

\* Variant of SequentialOutputMapper that maps the common prefix whatever
\* the behaviour.
SequentialOutputMapper_Zips(keys, behaviour, output) == MapOk(ZipDict(keys, output.v), FALSE)

\* SequentialOutputMapper.__call__
SequentialOutputMapper(keys, behaviour, output) ==
    IF output.t \in {"int", "none"} THEN MapRaise("TypeError")
    ELSE CASE output.t = "seq" ->
            IF Len(output.v) = Len(keys)
            THEN MapOk(ZipDict(keys, output.v), FALSE)
            ELSE SequentialHandleUnexpected(keys, behaviour, output.v)

\* The dict `keys` of a KeyedOutputMapper is a sequence of <<input key,
\* output key>> pairs in insertion order, the input keys distinct.
KeysOf(keys) == {keys[i][1] : i \in 1..Len(keys)}
InKeys(keys, k) == k \in KeysOf(keys)

\* Variant of KeyedRename that keeps each value under the key it came with.
KeyedRename_KeepsNames(keys, x) ==
    [k \in {keys[i][1] : i \in {j \in 1..Len(keys) : keys[j][1] \in DOMAIN x}} |-> IntV(x[k])]

\* {self.keys[k]: x[k] for k in self.keys if k in x}: built in the order of
\* keys, so of two input keys renamed to one output key the later one wins.
KeyedRename(keys, x) ==
    LET present == {i \in 1..Len(keys) : keys[i][1] \in DOMAIN x}
        dests == {keys[i][2] : i \in present}
        last(d) == CHOOSE i \in present : keys[i][2] = d /\ \A j \in present : keys[j][2] = d => j <= i
    IN [d \in dests |-> IntV(x[keys[last(d)][1]])]

\* Variant of KeyedOutputMapper._handle_unexpected whose PRESERVE copies no
\* undeclared entry.
KeyedHandleUnexpected_DropsExtra(keys, behaviour, x) ==
    IF STRICT \in behaviour
    THEN MapRaiseMsg("ValueError", "do not match")
    ELSE MapOk(KeyedRename(keys, x), WARN_UNEXPECTED \in behaviour)

\* KeyedOutputMapper._handle_unexpected, x a dict with another key set
KeyedHandleUnexpected(keys, behaviour, x) ==
    LET mapping == KeyedRename(keys, x)
        extra == [k \in {kk \in DOMAIN x : ~InKeys(keys, kk)} |-> IntV(x[k])]
        warns == WARN_UNEXPECTED \in behaviour
    IN  CASE behaviour = {STRICT} -> MapRaiseMsg("ValueError", "do not match")
          [] STRICT \notin behaviour /\ CHILL \in behaviour -> MapOk(mapping, warns)
          [] STRICT \notin behaviour /\ CHILL \notin behaviour /\ PRESERVE \in behaviour ->
                MapOk(Update(mapping, extra), warns)
          [] OTHER -> MapRaiseMsg("ValueError", "Invalid behaviour value")

\* Variant of KeyedOutputMapper.__call__ that hands a dict with the declared
\* key set back as it came, and maps the declared keys of any other dict.
KeyedOutputMapper_NoRename(keys, behaviour, output) ==
    IF KeysOf(keys) = DOMAIN output.v
    THEN MapOk([k \in DOMAIN output.v |-> IntV(output.v[k])], FALSE)
    ELSE MapOk(KeyedRename(keys, output.v), FALSE)

\* KeyedOutputMapper.__call__
KeyedOutputMapper(keys, behaviour, output) ==
    IF output.t \in {"int", "none"} THEN MapRaise("AttributeError")
    ELSE CASE output.t = "dict" ->
            IF KeysOf(keys) = DOMAIN output.v
            THEN MapOk(KeyedRename(keys, output.v), FALSE)
            ELSE KeyedHandleUnexpected(keys, behaviour, output.v)

\* OutputMapperBehaviour._attrsvalidator, run by attrs when a
\* SequentialOutputMapper or KeyedOutputMapper is constructed.
AttrsValidator(value) ==
    IF value \cap {STRICT, CHILL, PRESERVE} = {}
    THEN RaiseMsg("ValueError", "Invalid behaviour value")
    ELSE Ok(NoneV)

\* An output mapper is described by a record om; ApplyOutputMapper calls it.
DefaultOM == [type |-> "default", seqkeys |-> <<>>, dictkeys |-> <<>>, behaviour |-> {STRICT}]
SeqOM(keys, b) == [type |-> "sequential", seqkeys |-> keys, dictkeys |-> <<>>, behaviour |-> b]
KeyedOM(keys, b) == [type |-> "keyed", seqkeys |-> <<>>, dictkeys |-> keys, behaviour |-> b]

\* Variant of the call of an output mapper that warns whenever
\* WARN_UNEXPECTED is given, whatever the shape of the output.
ApplyOutputMapper_WarnsOnMatch(om, output) ==
    CASE om.type = "default" -> DEFAULT_OUTPUT_MAPPER(output)
      [] om.type = "sequential" ->
            [SequentialOutputMapper(om.seqkeys, om.behaviour, output)
                EXCEPT !.warned = WARN_UNEXPECTED \in om.behaviour]
      [] om.type = "keyed" ->
            [KeyedOutputMapper(om.dictkeys, om.behaviour, output)
                EXCEPT !.warned = WARN_UNEXPECTED \in om.behaviour]

ApplyOutputMapper(om, output) ==
    CASE om.type = "default" -> DEFAULT_OUTPUT_MAPPER(output)
      [] om.type = "sequential" -> SequentialOutputMapper(om.seqkeys, om.behaviour, output)
      [] om.type = "keyed" -> KeyedOutputMapper(om.dictkeys, om.behaviour, output)

\* ------------------------------------------------------------------------
\* Parameters and Variables
\* ------------------------------------------------------------------------
UNSET_PARAMETER == StrV("UNSET_PARAMETER")
UNSET_VARIABLE == StrV("UNSET_VARIABLE")

\* A Parameters object and a Variables object, by their attrs fields.
Parameters(parameter_set, parameters, defaults) ==
    [parameter_set |-> parameter_set, parameters |-> parameters, defaults |-> defaults]
Variables(variables, defaults) == [variables |-> variables, defaults |-> defaults]

\* The objects as values a context cell or a binding holds.
ParamsV(obj) == [t |-> "params", v |-> obj]
VarsV(obj) == [t |-> "variables", v |-> obj]

\* The outcome of a method: what it returns or raises, and the object as
\* the call leaves it.
StoreOutcome(r, self) == [ok |-> r.ok, val |-> r.val, exc |-> r.exc, self |-> self]

\* Parameters.set(name, value)
ParametersSet(self, name, value) ==
    IF name \notin self.parameter_set
    THEN StoreOutcome(RaiseMsg("InvalidParameterException", "Attempting to set parameter"), self)
    ELSE StoreOutcome(Ok(NoneV), [self EXCEPT !.parameters = Update(@, (name :> value))])

\* Variant of Parameters.sets that stores the declared names before it
\* fails for the others.
ParametersSets_Partial(self, kwargs) ==
    LET declared == [name \in DOMAIN kwargs \cap self.parameter_set |-> kwargs[name]]
        stored == [self EXCEPT !.parameters = Update(@, declared)]
    IN  IF \E name \in DOMAIN kwargs : name \notin self.parameter_set
        THEN StoreOutcome(RaiseMsg("InvalidParameterException", "Attempting to set parameters"), stored)
        ELSE StoreOutcome(Ok(NoneV), stored)

\* Parameters.sets(**kwargs)
ParametersSets(self, kwargs) ==
    IF \E name \in DOMAIN kwargs : name \notin self.parameter_set
    THEN StoreOutcome(RaiseMsg("InvalidParameterException", "Attempting to set parameters"), self)
    ELSE StoreOutcome(Ok(NoneV), [self EXCEPT !.parameters = Update(@, kwargs)])

\* Parameters.define(parameter_set, **defaults): `parameter_set or set()`
\* makes None the empty set, which is how the argument is given here.
ParametersDefine(parameter_set, defaults) ==
    LET names == parameter_set \cup DOMAIN defaults
    IN  ParametersSets(Parameters(names, EmptyMap, defaults), defaults).self

\* The match statement of Parameters.get and of Variables.get: `value` is
\* dict.get(name, check) with check the default given or, for None, the
\* unset sentinel; must raises when value == check.
GetOrRaise(data, name, default, must, unset, exctype) ==
    LET check == IF default # NoneV THEN default ELSE unset
        value == IF name \in DOMAIN data THEN data[name] ELSE check
    IN  IF must /\ value = check THEN RaiseMsg(exctype, "not defined") ELSE Ok(value)

\* Parameters.get(name, default, must)
ParametersGet(self, name, default, must) ==
    IF name \notin self.parameter_set
    THEN StoreOutcome(RaiseMsg("InvalidParameterException", "Attempting to retrieve undeclared parameter"), self)
    ELSE StoreOutcome(GetOrRaise(self.parameters, name, default, must, UNSET_PARAMETER,
                                 "UndefinedParameterException"), self)

\* Parameters.__getitem__(name)
ParametersGetItem(self, name) == ParametersGet(self, name, NoneV, TRUE)

\* Parameters.__delitem__(name)
ParametersDelItem(self, name) ==
    IF name \notin DOMAIN self.parameters THEN StoreOutcome(Raise("KeyError", FALSE, "none"), self)
    ELSE StoreOutcome(Ok(NoneV),
            [self EXCEPT !.parameters = [k \in DOMAIN @ \ {name} |-> @[k]]])

\* Parameters.reset(): self.PARAMATERS_FACTORY is an attribute neither the
\* class nor the instance has, so the first statement raises.
ParametersReset(self) == StoreOutcome(Raise("AttributeError", FALSE, "none"), self)

\* Variables.set(name, value)
VariablesSet(self, name, value) ==
    StoreOutcome(Ok(NoneV), [self EXCEPT !.variables = Update(@, (name :> value))])

\* Variables.sets(**kwargs)
VariablesSets(self, kwargs) ==
    StoreOutcome(Ok(NoneV), [self EXCEPT !.variables = Update(@, kwargs)])

\* Variables.define(**defaults)
VariablesDefine(defaults) == VariablesSets(Variables(EmptyMap, defaults), defaults).self

\* Variables.get(name, default, must)
VariablesGet(self, name, default, must) ==
    StoreOutcome(GetOrRaise(self.variables, name, default, must, UNSET_VARIABLE,
                            "UndefinedVariableException"), self)

\* Variables.__getitem__(name)
VariablesGetItem(self, name) == VariablesGet(self, name, NoneV, TRUE)

\* Variables.__delitem__(name)
VariablesDelItem(self, name) ==
    IF name \notin DOMAIN self.variables THEN StoreOutcome(Raise("KeyError", FALSE, "none"), self)
    ELSE StoreOutcome(Ok(NoneV),
            [self EXCEPT !.variables = [k \in DOMAIN @ \ {name} |-> @[k]]])

\* Variables.reset(): self.VARIABLES_FACTORY does not exist either.
VariablesReset(self) == StoreOutcome(Raise("AttributeError", FALSE, "none"), self)

\* s.get(name, default) and s[name] on a Parameters or a Variables value s.
StoreGet(s, name, default) ==
    IF s.t = "params" THEN ParametersGet(s.v, name, default, FALSE)
    ELSE VariablesGet(s.v, name, default, FALSE)
StoreGetItem(s, name) ==
    IF s.t = "params" THEN ParametersGetItem(s.v, name) ELSE VariablesGetItem(s.v, name)

\* ------------------------------------------------------------------------
\* Input mappers and bindings
\* ------------------------------------------------------------------------
\* A reference to a context cell (a ContextVar object), a stage table and a
\* callable handed to InputBinding.callback.
CtxVarV(cell) == [t |-> "ctxvar", v |-> cell]
TableV(tbl) == [t |-> "table", v |-> tbl]
FunV(body) == [t |-> "fun", v |-> body]

\* must_bind
must_bind(x) == IF x = UNBOUND THEN RaiseMsg("ValueError", "Unbound input") ELSE Ok(x)

\* Variant of DependencyInputMapper that hands out the default where the
\* output of the stage is due.
DependencyInputMapper_Default(m, source) ==
    IF source = UNBOUND /\ m.required THEN Raise("UndefinedInputException", FALSE, "none")
    ELSE IF source = UNBOUND THEN Ok(m.default)
    ELSE IF m.from_stage \notin DOMAIN source.v /\ m.required
         THEN Raise("UndefinedInputException", FALSE, "none")
    ELSE IF m.from_stage \notin DOMAIN source.v THEN Ok(m.default)
    ELSE LET stage == source.v[m.from_stage]
             has == m.from_output \in DOMAIN stage.outputs
         IN  CASE ~stage.has_run /\ m.required -> Raise("UndefinedInputException", FALSE, "none")
               [] stage.has_run /\ ~has /\ m.required -> Raise("UndefinedInputException", FALSE, "none")
               [] stage.has_run -> Ok(m.default)
               [] OTHER -> Raise("Exception", FALSE, "none")

\* Variant of DependencyInputMapper that takes a stage that has not run for
\* one that has.
DependencyInputMapper_IgnoresHasRun(m, source) ==
    IF source = UNBOUND /\ m.required THEN RaiseMsg("UndefinedInputException", "is undefined")
    ELSE IF source = UNBOUND THEN Ok(m.default)
    ELSE IF m.from_stage \notin DOMAIN source.v /\ m.required
         THEN RaiseMsg("UndefinedInputException", "not found in source")
    ELSE IF m.from_stage \notin DOMAIN source.v THEN Ok(m.default)
    ELSE LET stage == source.v[m.from_stage]
             has == m.from_output \in DOMAIN stage.outputs
         IN  IF ~has /\ m.required
             THEN RaiseMsg("UndefinedInputException", "completed and did not produce output")
             ELSE Ok(IF has THEN stage.outputs[m.from_output] ELSE m.default)

\* DependencyInputMapper.__call__; m holds from_stage, from_output, default
\* and required, source is UNBOUND or a stage table.
DependencyInputMapper(m, source) ==
    IF source = UNBOUND /\ m.required THEN RaiseMsg("UndefinedInputException", "is undefined")
    ELSE IF source = UNBOUND THEN Ok(m.default)
    ELSE IF m.from_stage \notin DOMAIN source.v /\ m.required
         THEN RaiseMsg("UndefinedInputException", "not found in source")
    ELSE IF m.from_stage \notin DOMAIN source.v THEN Ok(m.default)
    ELSE LET stage == source.v[m.from_stage]
             has == m.from_output \in DOMAIN stage.outputs
         IN  CASE ~stage.has_run /\ m.required ->
                    RaiseMsg("UndefinedInputException", "has not run yet")
               [] stage.has_run /\ ~has /\ m.required ->
                    RaiseMsg("UndefinedInputException", "completed and did not produce output")
               [] stage.has_run -> Ok(IF has THEN stage.outputs[m.from_output] ELSE m.default)
               [] OTHER -> RaiseMsg("Exception", "what the f")

\* Variant of KeyedInputMapper that hands out the default for a missing key
\* also when the input is required.
KeyedInputMapper_Lenient(m, source) ==
    CASE source = UNBOUND /\ m.required -> RaiseMsg("UndefinedInputException", "is undefined")
      [] source = UNBOUND /\ ~m.required -> Ok(m.default)
      [] OTHER -> Ok(IF m.from_key \in DOMAIN source.v THEN IntV(source.v[m.from_key])
                     ELSE m.default)

\* KeyedInputMapper.__call__; m holds from_key, default and required, source
\* is UNBOUND, a dict, or a Parameters or Variables object.
KeyedInputMapper(m, source) ==
    CASE source = UNBOUND /\ m.required -> RaiseMsg("UndefinedInputException", "is undefined")
      [] source = UNBOUND /\ ~m.required -> Ok(m.default)
      [] source # UNBOUND /\ source.t \in {"int", "none", "ctxvar", "fun"} ->
            Raise(IF m.required \/ source.t = "ctxvar" THEN "TypeError" ELSE "AttributeError",
                  FALSE, "none")
      [] source # UNBOUND /\ source.t = "dict" /\ m.required ->
            IF m.from_key \notin DOMAIN source.v
            THEN RaiseMsg("UndefinedInputException", "not found in source")
            ELSE Ok(IntV(source.v[m.from_key]))
      [] source # UNBOUND /\ source.t = "dict" /\ ~m.required ->
            Ok(IF m.from_key \in DOMAIN source.v THEN IntV(source.v[m.from_key])
               ELSE m.default)
      \* A Parameters or Variables source: `in` is Mapping.__contains__, which
      \* tries source[key] and answers False on a KeyError; .get is the
      \* class's own get.
      [] source # UNBOUND /\ source.t \in {"params", "variables"} /\ m.required ->
            LET r == StoreGetItem(source, m.from_key)
            IN  IF ~r.ok THEN RaiseMsg("UndefinedInputException", "not found in source")
                ELSE Ok(r.val)
      [] source # UNBOUND /\ source.t \in {"params", "variables"} /\ ~m.required ->
            LET r == StoreGet(source, m.from_key, m.default)
            IN  IF r.ok THEN Ok(r.val) ELSE [ok |-> FALSE, val |-> NoneV, exc |-> r.exc]

\* A mapper is described by a record: its type, the attributes of the
\* library's mapper classes, and whether InputBinding.contextual /
\* InputBinding.callback wrapped it (unwrap / call with cbargs).
Mapper(type, from_stage, from_output, from_key, default, required) ==
    [type |-> type, from_stage |-> from_stage, from_output |-> from_output,
     from_key |-> from_key, default |-> default, required |-> required,
     unwrap |-> FALSE, call |-> FALSE, cbargs |-> <<>>]

MustBindMapper == Mapper("must_bind", "", "", "", NoneV, TRUE)
DependencyMapper(from_stage, from_output, default, required) ==
    Mapper("dependency", from_stage, from_output, "", default, required)
KeyedMapper(from_key, default, required) == Mapper("keyed", "", "", from_key, default, required)
\* lambda x: x if x is not UNBOUND else default
OrDefaultMapper(default) == Mapper("or_default", "", "", "", default, FALSE)
\* lambda x: x.get(default)
GetDefaultMapper(default) == Mapper("get_default", "", "", "", default, FALSE)

\* _unwrap_ctxvar_then_apply(mapper): the mapper first reads the cell.
UnwrapCtxvarThenApply(m) == [m EXCEPT !.unwrap = TRUE]

\* _call_first_then_apply(mapper, *args): the mapper first calls the
\* function with the arguments.
CallFirstThenApply(m, cbargs) == [m EXCEPT !.call = TRUE, !.cbargs = cbargs]

\* Variant of CellGet that finds None in every cell.
CellGet_None(cells, cell) == Ok(NoneV)

\* ContextVar.get() in the context cells: a cell that was never set raises
\* LookupError.  cells maps a cell name to [set, val].
CellGet(cells, cell) ==
    IF cells[cell].set THEN Ok(cells[cell].val) ELSE Raise("LookupError", FALSE, "none")

\* fun(*args) for the callables bound by InputBinding.callback.
CallCallback(fun, cbargs) ==
    CASE fun.v = "raise" -> Raise("RuntimeError", FALSE, "none")
      [] fun.v = "unbound" -> Ok(UNBOUND)
      [] fun.v = "double" ->
            IF Len(cbargs) # 1 THEN Raise("TypeError", FALSE, "none")
            ELSE Ok(IntV(cbargs[1].v * 2))

\* Calling the mapper of a binding on x.
ApplyBase(m, x) ==
    CASE m.type = "must_bind" -> must_bind(x)
      [] m.type = "dependency" -> DependencyInputMapper(m, x)
      [] m.type = "keyed" -> KeyedInputMapper(m, x)
      [] m.type = "or_default" -> Ok(IF x = UNBOUND THEN m.default ELSE x)
      [] m.type = "get_default" ->
            IF x.t = "dict" THEN Ok(NoneV) ELSE Raise("AttributeError", FALSE, "none")

\* mapper(var.get()) and mapper(fun(*args)): a failing get() or fun()
\* propagates.
ApplyToGot(m, got) == IF got.ok THEN ApplyBase(m, got.val) ELSE got

\* The outcome of a resolution, with what it did to the deferred source:
\* "none", "read" (the cell) or "called" (the function).
Touch(r, how) == [ok |-> r.ok, val |-> r.val, exc |-> r.exc, touched |-> how]

ApplyMapper(m, x, cells) ==
    CASE m.unwrap ->
            IF x.t # "ctxvar" THEN Touch(Raise("AttributeError", FALSE, "none"), "none")
            ELSE Touch(ApplyToGot(m, CellGet(cells, x.v)), "read")
      [] ~m.unwrap /\ m.call ->
            IF x.t # "fun" THEN Touch(Raise("TypeError", FALSE, "none"), "none")
            ELSE Touch(ApplyToGot(m, CallCallback(x, m.cbargs)), "called")
      [] ~m.unwrap /\ ~m.call /\ m.type = "get_default" /\ x.t = "ctxvar" ->
            Touch(Ok(IF cells[x.v].set THEN cells[x.v].val ELSE m.default), "read")
      [] OTHER -> Touch(ApplyBase(m, x), "none")

\* Variant of ReraiseUnbound that lets the original exception through.
ReraiseUnbound_Leaks(r) == r

\* InputBinding.__call__: a bound source wins over defer; every exception is
\* re-raised as UnboundInputException from the original one.
ReraiseUnbound(r) ==
    IF r.ok THEN r ELSE Touch(Raise("UnboundInputException", FALSE, r.exc.type), r.touched)

\* Variant of BindingArgument that prefers the deferred source.
BindingArgument_DeferFirst(b) == IF b.defer # NoneV THEN b.defer ELSE b.source

\* What the mapper is applied to: the source if it is bound or there is
\* nothing to defer to, the deferred source otherwise.
BindingArgument(b) == IF b.source # UNBOUND \/ b.defer = NoneV THEN b.source ELSE b.defer

InputBindingCall(b, cells) == ReraiseUnbound(ApplyMapper(b.mapper, BindingArgument(b), cells))

\* InputBinding(source, mapper, defer) and its factories immediate,
\* contextual and callback
InputBinding(source, mapper, defer) == [source |-> source, mapper |-> mapper, defer |-> defer]
ImmediateWith(source, mapper) == InputBinding(source, mapper, NoneV)
Immediate(source) == ImmediateWith(source, MustBindMapper)
Contextual(cell, mapper, get_first) ==
    InputBinding(UNBOUND, IF get_first THEN UnwrapCtxvarThenApply(mapper) ELSE mapper, CtxVarV(cell))
Callback(fun, cbargs, mapper, call_first) ==
    InputBinding(UNBOUND, IF call_first THEN CallFirstThenApply(mapper, cbargs) ELSE mapper, fun)

\* Input and the shorthands of pypedream/input.py
Input(as_arg, bind, logged) == [as_arg |-> as_arg, bind |-> bind, logged |-> logged]
known(value, as_arg, logged) == Input(as_arg, Immediate(value), logged)
param(name, as_arg, default, required, logged) ==
    Input(as_arg, Contextual("PARAMETERS", KeyedMapper(name, default, required), TRUE), logged)
var(name, as_arg, default, required, logged) ==
    Input(as_arg, Contextual("VARIABLES",
                             KeyedMapper(name, IF default # NoneV THEN default ELSE INPUT_NOT_FOUND,
                                         required), TRUE), logged)
dependency(from_stage, as_arg, from_output, default, required, logged) ==
    Input(as_arg, Contextual("STAGES", DependencyMapper(from_stage, from_output, default, required), TRUE), logged)

\* _prepare_inputs_and_context: resolves the inputs in order; the first
\* failure propagates.
RECURSIVE PrepareFrom(_, _, _, _, _)
\* Variant of the body of the loop that collects every pair into the logged
\* mapping.
PrepareOne_LogsAll(inputs, i, cells, prepared, logged, r) ==
    IF ~r.ok THEN [ok |-> FALSE, prepared |-> prepared, logged |-> logged, exc |-> r.exc]
    ELSE PrepareFrom(inputs, i + 1, cells, Update(prepared, (inputs[i].as_arg :> r.val)),
                     Update(logged, (inputs[i].as_arg :> r.val)))

\* The body of the loop for input i, r the outcome of input_mapping.get().
PrepareOne(inputs, i, cells, prepared, logged, r) ==
    IF ~r.ok THEN [ok |-> FALSE, prepared |-> prepared, logged |-> logged, exc |-> r.exc]
    ELSE PrepareFrom(inputs, i + 1, cells, Update(prepared, (inputs[i].as_arg :> r.val)),
                     IF inputs[i].logged THEN Update(logged, (inputs[i].as_arg :> r.val))
                     ELSE logged)

PrepareFrom(inputs, i, cells, prepared, logged) ==
    IF i > Len(inputs) THEN [ok |-> TRUE, prepared |-> prepared, logged |-> logged, exc |-> Ok(NoneV).exc]
    ELSE PrepareOne(inputs, i, cells, prepared, logged, InputBindingCall(inputs[i].bind, cells))

PrepareInputsAndContext(inputs, cells) == PrepareFrom(inputs, 1, cells, EmptyMap, EmptyMap)

\* ------------------------------------------------------------------------
\* Stage functions: the callables wrapped by a Stage, drawn from a small
\* family of deterministic bodies.
\* ------------------------------------------------------------------------
RECURSIVE SumArgs(_, _)
SumArgs(kwargs, names) ==
    IF names = {} THEN 0
    ELSE LET n == CHOOSE n \in names : TRUE
         IN kwargs[n].v + SumArgs(kwargs, names \ {n})

Fn(params, body, base) == [params |-> params, body |-> body, base |-> base]

\* function(**inputs): a keyword the signature lacks, or a missing one,
\* raises TypeError before the body runs.
CallFunction(fn, kwargs) ==
    IF DOMAIN kwargs # fn.params THEN Raise("TypeError", FALSE, "none")
    ELSE CASE fn.body = "raise" -> Raise("RuntimeError", FALSE, "none")
           [] fn.body = "exit" -> Raise("ExitPipeline", fn.base # 0, "none")
           [] OTHER ->
                IF \E n \in fn.params : kwargs[n].t # "int" THEN Raise("TypeError", FALSE, "none")
                ELSE LET s == (fn.base + SumArgs(kwargs, fn.params)) % ValMod
                         s1 == (s + 1) % ValMod
                     IN CASE fn.body = "sum" -> Ok(IntV(s))
                          [] fn.body = "seq" -> Ok(SeqV(<<s, s1>>))
                          [] fn.body = "dict" -> Ok(DictV([x |-> s, y |-> s1]))

\* ------------------------------------------------------------------------
\* Stage
\* ------------------------------------------------------------------------
Stage(function, inputs, output_mapper) ==
    [function |-> function, inputs |-> inputs, has_run |-> FALSE, outputs |-> EmptyMap,
     output_mapper |-> output_mapper]

\* Stage.run(**kwargs) on stage `self` with the context cells `cells`.  The
\* outcome carries the returned value or the exception, the stage as the
\* call leaves it, whether the function was invoked and with which keyword
\* arguments, and the logging context of the call.
StageRunOutcome(r, self, invoked, received, logctx) ==
    [ok |-> r.ok, val |-> r.val, exc |-> r.exc, stage |-> self,
     invoked |-> invoked, received |-> received, logctx |-> logctx]

\* Variant of StageRunStore that stores the outputs and forgets has_run.
StageRunStore_NoFlag(self, inputs, logged, output, mapped) ==
    IF ~output.ok THEN StageRunOutcome(output, self, TRUE, inputs, logged)
    ELSE IF ~mapped.ok
    THEN StageRunOutcome([ok |-> FALSE, val |-> NoneV, exc |-> mapped.exc], self, TRUE, inputs, logged)
    ELSE StageRunOutcome(output, [self EXCEPT !.outputs = mapped.val], TRUE, inputs, logged)

\* Variant of StageRunStore that marks the stage as run also when the output
\* mapper raised.
StageRunStore_FlagsFailure(self, inputs, logged, output, mapped) ==
    IF ~output.ok THEN StageRunOutcome(output, self, TRUE, inputs, logged)
    ELSE IF ~mapped.ok
    THEN StageRunOutcome([ok |-> FALSE, val |-> NoneV, exc |-> mapped.exc],
                         [self EXCEPT !.has_run = TRUE], TRUE, inputs, logged)
    ELSE StageRunOutcome(output, [self EXCEPT !.outputs = mapped.val, !.has_run = TRUE],
                         TRUE, inputs, logged)

\* The end of Stage.run: the outputs and has_run are set only when the
\* function and the output mapper have both returned.
StageRunStore(self, inputs, logged, output, mapped) ==
    IF ~output.ok THEN StageRunOutcome(output, self, TRUE, inputs, logged)
    ELSE IF ~mapped.ok
    THEN StageRunOutcome([ok |-> FALSE, val |-> NoneV, exc |-> mapped.exc], self, TRUE, inputs, logged)
    ELSE StageRunOutcome(output, [self EXCEPT !.outputs = mapped.val, !.has_run = TRUE],
                         TRUE, inputs, logged)

StageRunMap(self, inputs, logged, output) ==
    StageRunStore(self, inputs, logged, output, ApplyOutputMapper(self.output_mapper, output.val))

StageRunCall(self, inputs, logged) ==
    StageRunMap(self, inputs, logged, CallFunction(self.function, inputs))

\* Variant of StageRunPrepared in which a resolved input wins over an
\* override of the same name.
StageRunPrepared_InputsWin(self, kwargs, prep) ==
    IF ~prep.ok
    THEN StageRunOutcome([ok |-> FALSE, val |-> NoneV, exc |-> prep.exc], self, FALSE, EmptyMap, EmptyMap)
    ELSE StageRunCall(self, Update(kwargs, prep.prepared), prep.logged)

\* The start of Stage.run: a failing input resolution ends the call, else
\* inputs.update(kwargs) puts the overrides on top of the resolved inputs.
StageRunPrepared(self, kwargs, prep) ==
    IF ~prep.ok
    THEN StageRunOutcome([ok |-> FALSE, val |-> NoneV, exc |-> prep.exc], self, FALSE, EmptyMap, EmptyMap)
    ELSE StageRunCall(self, Update(prep.prepared, kwargs), prep.logged)

StageRun(self, kwargs, cells) ==
    StageRunPrepared(self, kwargs, PrepareInputsAndContext(self.inputs, cells))

\* Variant of StageReset that keeps the outputs.
StageReset_KeepsOutputs(self) == [self EXCEPT !.has_run = FALSE]

\* Variant of StageReset that keeps has_run.
StageReset_KeepsFlag(self) == [self EXCEPT !.outputs = EmptyMap]

\* Stage.reset
StageReset(self) == [self EXCEPT !.has_run = FALSE, !.outputs = EmptyMap]

\* ------------------------------------------------------------------------
\* Context cells (pypedream/core/context.py)
\* ------------------------------------------------------------------------
CellNames == {"PIPELINE", "VARIABLES", "PARAMETERS", "STAGES", "STAGE", "LOG"}
Unset == [set |-> FALSE, val |-> NoneV]
SetTo(v) == [set |-> TRUE, val |-> v]
RefV(name) == [t |-> "ref", v |-> name]

\* applydefaults(), run when the module is imported: STAGES is not set.
applydefaults ==
    [c \in CellNames |->
        CASE c = "STAGES" -> Unset
          [] c = "LOG" -> SetTo(RefV("BASE_LOGGER"))
          [] OTHER -> SetTo(NoneV)]

\* Variant of ContextRun in which the callable runs in the caller's
\* context.
ContextRun_InCaller(own, caller, after) == [own |-> own, caller |-> after]

\* contextvars.Context.run(callable) on the context `own`, called from the
\* context `caller`: the callable's cell assignments, which turn own into
\* `after`, stay in the context that run was called on.
ContextRun(own, caller, after) == [own |-> after, caller |-> caller]

\* _applydefaults of Pipeline._ctx for the pipeline called `self`: the cells
\* refer to the pipeline's own objects.
PipelineCtxOf(self, cells) ==
    [c \in CellNames |->
        CASE c = "PIPELINE" -> SetTo(RefV(self))
          [] c = "VARIABLES" -> SetTo(RefV(self \o ".variables"))
          [] c = "PARAMETERS" -> SetTo(RefV(self \o ".parameters"))
          [] c = "STAGES" -> SetTo(RefV(self \o ".stages"))
          [] OTHER -> cells[c]]

\* Pipeline._ctx: a copy of the constructing context in which the cells
\* refer to the pipeline's own objects.
PipelineCtx(ambientCells) == PipelineCtxOf("self", ambientCells)

\* The stage table of the second pipeline: stages "A", "B", "C" that have
\* run.
OtherTable ==
    [k \in {"A", "B", "C"} |->
        [Stage(Fn({}, "sum", 3), <<>>, DefaultOM)
            EXCEPT !.has_run = TRUE,
                   !.outputs = (DEFAULT_OUTPUT_KEY :> 3) @@ ("x" :> 3) @@ ("y" :> 3)]]

\* The second pipeline before the caller constructs it.
NoOther == [made |-> FALSE, cells |-> applydefaults, runs |-> 0]

\* The cells as a binding reads them: the reference to the stage table is
\* followed to the table as it is now.
Deref(cells, table) ==
    [c \in CellNames |->
        CASE cells[c] = SetTo(RefV("self.stages")) -> SetTo(TableV(table))
          [] cells[c] = SetTo(RefV("other.stages")) -> SetTo(TableV(OtherTable))
          [] OTHER -> cells[c]]

\* ------------------------------------------------------------------------
\* Pipeline
\* ------------------------------------------------------------------------
\* ExitPipeline.__init__(message, *args, error=False): error is
\* keyword-only, positional extras land in args.
ExitPipeline(message, args, error, cause) ==
    [type |-> "ExitPipeline", error |-> error, cause |-> cause, msg |-> message]

\* context.STAGE.set(curr)
SetStage(cells, stage_key) == [cells EXCEPT !["STAGE"] = SetTo(RefV(stage_key))]

\* Variant of RunStageHandle that lets the exception of the stage through
\* unwrapped.
RunStageHandle_Unwrapped(cells1, r) ==
    [ok |-> r.ok, val |-> r.val, exc |-> r.exc, logged |-> <<>>, cells |-> cells1, inner |-> r]

\* Variant of RunStageHandle that swallows the exception and returns None.
RunStageHandle_Swallows(cells1, r) ==
    [ok |-> TRUE, val |-> r.val, exc |-> Ok(NoneV).exc,
     logged |-> IF r.ok THEN <<>> ELSE <<"stage.exception">>, cells |-> cells1, inner |-> r]

\* The try statement of Pipeline.run_stage around curr.run(**kwargs), r the
\* outcome of that call: ExitPipeline is re-raised, every other exception
\* is logged and wrapped into ExitPipeline("Error in pipeline", True, e).
\* `inner` keeps the outcome of the Stage.run call.
RunStageHandle(cells1, r) ==
    [ok |-> r.ok, val |-> r.val,
     exc |-> IF r.ok \/ r.exc.type = "ExitPipeline" THEN r.exc
             ELSE ExitPipeline("Error in pipeline", <<TRUE, r.exc.type>>, FALSE, r.exc.type),
     logged |-> IF r.ok \/ r.exc.type = "ExitPipeline" THEN <<>> ELSE <<"stage.exception">>,
     cells |-> cells1, inner |-> r]

\* Pipeline.run_stage(stage_key, **kwargs), run inside the pipeline's
\* context: sets the STAGE cell and runs the stage.
RunStage(table, stage_key, kwargs, cells) ==
    RunStageHandle(SetStage(cells, stage_key),
                   StageRun(table[stage_key], kwargs, Deref(SetStage(cells, stage_key), table)))

\* The handler of the loop in Pipeline.run: `except ExitPipeline as e`.
ExitLog(e) == IF e.error THEN "run.exception: Exited pipeline with error state."
              ELSE "run.info: Exited pipeline successfully."

\* Variant of NextIndex that skips a key.
NextIndex_Skips(i) == i + 2

\* The for loop of Pipeline.run moves on to the next key of the table.
NextIndex(i) == i + 1

\* ------------------------------------------------------------------------
\* Pipeline.stage
\* ------------------------------------------------------------------------
\* A callable with its __name__.
Named(name, fn) == [params |-> fn.params, body |-> fn.body, base |-> fn.base, name |-> name]

\* `stage_key = name or None`
NameOrNone(name) == IF name = NoneV \/ name = StrV("") THEN NoneV ELSE name

\* `inputs = list(inputargs) + (inputs or [])`
JoinInputs(inputargs, inputs) == inputargs \o (IF inputs = NoneV THEN <<>> ELSE inputs)

\* The closure of the inner function `decorator`: the variables of the
\* enclosing call of Pipeline.stage it refers to.
Closure(stage_key, inputs, output_mapper) ==
    [stage_key |-> stage_key, inputs |-> inputs, output_mapper |-> output_mapper]

StageOutcome(kind, returned, closure, table, keys, exc) ==
    [kind |-> kind, returned |-> returned, closure |-> closure, table |-> table, order |-> keys,
     exc |-> exc]

\* Variant of Decorator in which a key that is registered again moves to
\* the end of the table.
Decorator_MovesToEnd(closure, func, table, keys) ==
    LET stage_key == IF closure.stage_key = NoneV THEN StrV(func.name) ELSE closure.stage_key
        st == Stage(func, closure.inputs,
                    IF closure.output_mapper = NoneV THEN DefaultOM ELSE closure.output_mapper)
    IN  StageOutcome("callable", FunV(func), [closure EXCEPT !.stage_key = stage_key],
                     Update(table, (stage_key.v :> st)),
                     Append(SelectSeq(keys, LAMBDA k : k # stage_key.v), stage_key.v),
                     Ok(NoneV).exc)

\* decorator(func): stage_key is nonlocal, so the name taken from the
\* callable stays in the closure; the entry is assigned into self.stages
\* (a new key goes last, an existing key keeps its place); func is returned.
Decorator(closure, func, table, keys) ==
    LET stage_key == IF closure.stage_key = NoneV THEN StrV(func.name) ELSE closure.stage_key
        st == Stage(func, closure.inputs,
                    IF closure.output_mapper = NoneV THEN DefaultOM ELSE closure.output_mapper)
    IN  StageOutcome("callable", FunV(func), [closure EXCEPT !.stage_key = stage_key],
                     Update(table, (stage_key.v :> st)),
                     IF stage_key.v \in DOMAIN table THEN keys ELSE Append(keys, stage_key.v),
                     Ok(NoneV).exc)

\* Pipeline.stage(name_or_callable, *inputargs, inputs, output_mapper, name)
\* on the stage table `table` with the keys `keys`.
PipelineStage(name_or_callable, inputargs, inputs, output_mapper, name, table, keys) ==
    LET stage_key == NameOrNone(name)
        c == Closure(stage_key, JoinInputs(inputargs, inputs), output_mapper)
    IN  CASE name_or_callable.t = "fun" -> Decorator(c, name_or_callable.v, table, keys)
          [] name_or_callable.t = "str" /\ stage_key = NoneV ->
                StageOutcome("decorator", NoneV, [c EXCEPT !.stage_key = name_or_callable],
                             table, keys, Ok(NoneV).exc)
          [] name_or_callable.t = "str" /\ stage_key # NoneV ->
                StageOutcome("raised", NoneV, c, table, keys,
                             RaiseMsg("ValueError", "Cannot provide a name kwarg and a string").exc)
          [] name_or_callable = NoneV ->
                StageOutcome("decorator", NoneV, c, table, keys, Ok(NoneV).exc)
          [] OTHER -> StageOutcome("none", NoneV, c, table, keys, Ok(NoneV).exc)

\* ------------------------------------------------------------------------
\* Stage tables the pipeline is built with
\* ------------------------------------------------------------------------
StageKeys == <<"A", "B", "C">>

MenuA ==
    { Stage(Fn({}, "sum", 1), <<>>, DefaultOM),
      Stage(Fn({}, "seq", 1), <<>>, SeqOM(<<"x", "y">>, {STRICT})),
      Stage(Fn({"a"}, "sum", 0), <<dependency("B", "a", DEFAULT_OUTPUT_KEY, NoneV, TRUE, FALSE)>>, DefaultOM),
      Stage(Fn({}, "seq", 0), <<>>, SeqOM(<<>>, {CHILL})) }

MenuB ==
    { Stage(Fn({}, "sum", 2), <<>>, DefaultOM),
      Stage(Fn({}, "raise", 0), <<>>, DefaultOM),
      Stage(Fn({}, "exit", 0), <<>>, DefaultOM),
      Stage(Fn({"a"}, "sum", 1), <<dependency("A", "a", "x", NoneV, TRUE, TRUE)>>, DefaultOM),
      Stage(Fn({}, "seq", 0), <<>>, SeqOM(<<"x">>, {STRICT})) }

MenuC ==
    { Stage(Fn({"a", "b"}, "sum", 0),
            <<dependency("A", "a", DEFAULT_OUTPUT_KEY, NoneV, TRUE, FALSE),
              dependency("B", "b", DEFAULT_OUTPUT_KEY, NoneV, TRUE, FALSE)>>, DefaultOM),
      Stage(Fn({"a"}, "sum", 0),
            <<dependency("A", "a", DEFAULT_OUTPUT_KEY, NoneV, TRUE, TRUE), known(IntV(2), "a", FALSE)>>,
            DefaultOM),
      Stage(Fn({"a"}, "sum", 1), <<dependency("A", "a", "y", IntV(0), FALSE, FALSE)>>, DefaultOM),
      Stage(Fn({}, "dict", 0), <<>>, KeyedOM(<<<<"x", "out">>>>, {PRESERVE})) }

\* The keyword arguments a caller passes to run().
OverrideChoices == {EmptyMap, ("a" :> IntV(2))}

\* ------------------------------------------------------------------------
\* State
\* ------------------------------------------------------------------------
VARIABLES
    order,        \* the keys of Pipeline.stages in insertion order
    stages,       \* Pipeline.stages: key -> Stage
    ctx,          \* Pipeline.ctx: the cells of the pipeline's context
    ambient,      \* the cells of the caller's context
    pc,           \* "idle", or "running" inside Pipeline.run
    idx,          \* position of the for loop of Pipeline.run in order
    kwargs,       \* the keyword arguments of the current run()
    outputs,      \* the local `outputs` of Pipeline.run
    outcome,      \* how the latest run() ended: "none", "returned", "raised"
    result,       \* the mapping the latest run() returned
    log,          \* log records emitted by the current run()
    built,        \* history: the stage table as constructed
    attempted,    \* history: keys handed to run_stage in the current run()
    invoked,      \* history: keys whose function was called in the current run()
    completed,    \* history: keys whose Stage.run returned in the current run()
    errors,       \* history: <<key, exception type>> of each Stage.run that raised in the current run()
    start,        \* history: the stage table as it was when the current run() began
    done,         \* history: key -> a Stage.run returned since construction / reset
    last,         \* history: the latest Stage.run / Stage.reset call
    prev,         \* history: result of the run() before, when it was back to back
    untouched,    \* history: no Stage call by the caller since run() returned
    recorded,     \* history: key -> who recorded the outputs the stage holds: "none",
                  \* the "caller", "this" run() or an "other" run()
    binding,      \* an InputBinding the caller resolves on its own
    env,          \* the context cells that binding is resolved in
    hist,         \* history: the resolutions of binding, each with the cells it saw
    probe,        \* a call of a mapper or of a mapper's constructor, and its outcome
    decorators,   \* the decorators Pipeline.stage has returned, each with its closure
    reg,          \* history: the latest call of Pipeline.stage or of a decorator
    store,        \* a Parameters or a Variables object the caller works on
    sop,          \* history: the latest method call on store, and the store before it
    other         \* a second pipeline of the caller with stages of the same names:
                  \* whether it is constructed, its context cells, its runs so far

pipevars == <<order, stages, ctx, ambient, pc, idx, kwargs, outputs, outcome, result, log,
              built, attempted, invoked, completed, errors, start, done, last, prev, untouched,
              recorded>>
unitvars == <<binding, env, hist, probe>>
regvars == <<decorators, reg>>
storevars == <<store, sop>>
vars == <<pipevars, unitvars, regvars, storevars, other>>

NoCall == [op |-> "none", via |-> "none", key |-> "", kwargs |-> EmptyMap, ok |-> FALSE, afterReset |-> FALSE, dirtyReset |-> FALSE,
           val |-> NoneV, exc |-> Ok(NoneV).exc, invoked |-> FALSE, received |-> EmptyMap,
           logctx |-> EmptyMap,
           pre |-> Stage(Fn({}, "sum", 0), <<>>, DefaultOM)]

\* The pipeline as constructed with the stage table `table`, whose keys in
\* insertion order are `keys`.
InitPipelineWith(keys, table) ==
    /\ order = keys
    /\ stages = table
    /\ built = stages
    /\ \E c \in {ContextRun(applydefaults, applydefaults, PipelineCtx(applydefaults))} :
          ambient = c.caller /\ ctx = c.own
    /\ pc = "idle"
    /\ idx = 1
    /\ kwargs = EmptyMap
    /\ outputs = EmptyMap
    /\ outcome = "none"
    /\ result = EmptyMap
    /\ log = <<>>
    /\ attempted = <<>>
    /\ invoked = <<>>
    /\ completed = {}
    /\ errors = <<>>
    /\ start = stages
    /\ done = [k \in {"A", "B", "C"} |-> FALSE]
    /\ last = NoCall
    /\ prev = [valid |-> FALSE, result |-> EmptyMap]
    /\ untouched = FALSE
    /\ recorded = [k \in {"A", "B", "C"} |-> "none"]

InitPipeline(table) == InitPipelineWith(StageKeys, table)

\* No binding is resolved and no mapper is called on its own.
NoProbe ==
    [op |-> "none", im |-> MustBindMapper, om |-> DefaultOM, arg |-> NoneV, at |-> "idle",
     out |-> Ok(NoneV), mapped |-> MapOk(EmptyMap, FALSE),
     inputs |-> <<>>, prep |-> PrepareInputsAndContext(<<>>, applydefaults)]

InitUnits ==
    /\ binding = Immediate(NoneV)
    /\ env = ("slot" :> Unset)
    /\ hist = <<>>
    /\ probe = NoProbe

\* Pipeline.stage has not been called.
NoReg ==
    [op |-> "none", noc |-> NoneV, name |-> NoneV, func |-> Fn({}, "sum", 0), first |-> TRUE,
     kind |-> "none", returned |-> NoneV, exc |-> Ok(NoneV).exc, pre |-> EmptyMap, n |-> 0]

InitRegs ==
    /\ decorators = <<>>
    /\ reg = NoReg

\* No method of the store has been called.
NoOp ==
    [op |-> "none", name |-> "", value |-> NoneV, kwargs |-> EmptyMap, default |-> NoneV,
     must |-> FALSE, required |-> FALSE, ok |-> FALSE, val |-> NoneV, exc |-> Ok(NoneV).exc,
     pre |-> VarsV(VariablesDefine(EmptyMap)), n |-> 0]

InitStores ==
    /\ store = VarsV(VariablesDefine(EmptyMap))
    /\ sop = NoOp
    /\ other = NoOther

Init ==
    /\ \E a \in MenuA, b \in MenuB, c \in MenuC :
          InitPipeline([k \in {"A", "B", "C"} |-> CASE k = "A" -> a [] k = "B" -> b [] k = "C" -> c])
    /\ InitUnits
    /\ InitRegs
    /\ InitStores

\* The record of a Stage.run call in `last`.
RunCall(via, key, kw, pre, r) ==
    [op |-> "run", via |-> via, key |-> key, kwargs |-> kw, ok |-> r.ok, val |-> r.val,
     afterReset |-> (last.op = "reset" /\ last.key = key),
     dirtyReset |-> (last.op = "reset" /\ last.key = key /\ last.pre.has_run),
     exc |-> r.exc, invoked |-> r.invoked, received |-> r.received, logctx |-> r.logctx,
     pre |-> pre]

\* Pipeline.run, up to the loop: _init_run_logger sets the LOG cell of the
\* pipeline's context and `outputs` starts empty.
RunBegin(kw) ==
    /\ pc = "idle"
    /\ pc' = "running"
    /\ idx' = 1
    /\ kwargs' = kw
    /\ outputs' = EmptyMap
    /\ \E c \in {ContextRun(ctx, ambient, [ctx EXCEPT !["LOG"] = SetTo(RefV("run_logger"))])} :
          ctx' = c.own /\ ambient' = c.caller
    /\ outcome' = "none"
    /\ result' = EmptyMap
    /\ log' = <<>>
    /\ attempted' = <<>>
    /\ invoked' = <<>>
    /\ completed' = {}
    /\ errors' = <<>>
    /\ start' = stages
    /\ last' = NoCall
    /\ prev' = IF outcome = "returned" /\ untouched /\ kwargs = kw
               THEN [valid |-> TRUE, result |-> result]
               ELSE [valid |-> FALSE, result |-> EmptyMap]
    /\ untouched' = FALSE
    /\ recorded' = [k \in DOMAIN recorded |-> IF recorded[k] = "this" THEN "other" ELSE recorded[k]]
    /\ UNCHANGED <<order, stages, built, done>>
    /\ UNCHANGED <<unitvars, regvars, storevars, other>>

\* One iteration of the loop of Pipeline.run: run_stage in the pipeline's
\* context, the value recorded under the key, ExitPipeline caught and logged.
RunStep ==
    /\ pc = "running"
    /\ idx <= Len(order)
    /\ \E key \in {order[idx]} : \E r \in {RunStage(stages, key, kwargs, ctx)} :
          /\ stages' = [stages EXCEPT ![key] = r.inner.stage]
          /\ \E c \in {ContextRun(ctx, ambient, r.cells)} : ctx' = c.own /\ ambient' = c.caller
          /\ attempted' = Append(attempted, key)
          /\ invoked' = IF r.inner.invoked THEN Append(invoked, key) ELSE invoked
          /\ completed' = IF r.inner.ok THEN completed \cup {key} ELSE completed
          /\ errors' = IF r.inner.ok THEN errors ELSE Append(errors, <<key, r.inner.exc.type>>)
          /\ done' = [done EXCEPT ![key] = @ \/ r.inner.ok]
          /\ recorded' = IF r.inner.ok THEN [recorded EXCEPT ![key] = "this"] ELSE recorded
          /\ last' = RunCall("pipeline", key, kwargs, stages[key], r.inner)
          /\ IF r.ok
             THEN /\ outputs' = Update(outputs, (key :> r.val))
                  /\ log' = log
                  /\ idx' = NextIndex(idx)
                  /\ UNCHANGED <<pc, outcome>>
             ELSE IF r.exc.type = "ExitPipeline"
             THEN /\ log' = log \o r.logged \o <<ExitLog(r.exc)>>
                  /\ idx' = NextIndex(idx)
                  /\ UNCHANGED <<pc, outcome, outputs>>
             ELSE /\ log' = log \o r.logged
                  /\ pc' = "idle"
                  /\ outcome' = "raised"
                  /\ UNCHANGED <<idx, outputs>>
    /\ UNCHANGED <<order, kwargs, result, built, start, prev, untouched>>
    /\ UNCHANGED <<unitvars, regvars, storevars, other>>

\* Pipeline.run returns `outputs` when the loop is over.
RunReturn ==
    /\ pc = "running"
    /\ idx > Len(order)
    /\ pc' = "idle"
    /\ outcome' = "returned"
    /\ result' = outputs
    /\ untouched' = TRUE
    /\ UNCHANGED <<order, stages, ctx, ambient, idx, kwargs, outputs, log, built, attempted,
                   invoked, completed, errors, start, done, last, prev, recorded>>
    /\ UNCHANGED <<unitvars, regvars, storevars, other>>

\* The caller calls Stage.run(**kw) on a stage of the table, in its own
\* context.
DirectRun(key, kw) ==
    /\ pc = "idle"
    /\ \E r \in {StageRun(stages[key], kw, Deref(ambient, stages))} :
          /\ stages' = [stages EXCEPT ![key] = r.stage]
          /\ done' = [done EXCEPT ![key] = @ \/ r.ok]
          /\ recorded' = IF r.ok THEN [recorded EXCEPT ![key] = "caller"] ELSE recorded
          /\ last' = RunCall("caller", key, kw, stages[key], r)
    /\ untouched' = FALSE
    /\ UNCHANGED <<order, ctx, ambient, pc, idx, kwargs, outputs, outcome, result, log, built,
                   attempted, invoked, completed, errors, start, prev>>
    /\ UNCHANGED <<unitvars, regvars, storevars, other>>

\* The caller calls Stage.reset() on a stage of the table.
DirectReset(key) ==
    /\ pc = "idle"
    /\ stages' = [stages EXCEPT ![key] = StageReset(@)]
    /\ done' = [done EXCEPT ![key] = FALSE]
    /\ recorded' = [recorded EXCEPT ![key] = "none"]
    /\ last' = [NoCall EXCEPT !.op = "reset", !.via = "caller", !.key = key, !.pre = stages[key]]
    /\ untouched' = FALSE
    /\ UNCHANGED <<order, ctx, ambient, pc, idx, kwargs, outputs, outcome, result, log, built,
                   attempted, invoked, completed, errors, start, prev>>
    /\ UNCHANGED <<unitvars, regvars, storevars, other>>

Next ==
    \/ \E kw \in OverrideChoices : RunBegin(kw)
    \/ RunStep
    \/ RunReturn
    \/ \E key \in {"A", "B", "C"}, kw \in OverrideChoices : DirectRun(key, kw)
    \/ \E key \in {"A", "B", "C"} : DirectReset(key)

Spec == Init /\ [][Next]_vars

\* ------------------------------------------------------------------------
\* A binding on its own: the caller constructs an InputBinding, resolves it
\* and sets the context cell it may defer to.
\* ------------------------------------------------------------------------
\* Resolutions of the binding that are recorded.
MaxResolutions == 2

\* The stage table of a pipeline that plays no part.
IdleTable == [k \in {"A", "B", "C"} |-> Stage(Fn({}, "sum", 0), <<>>, DefaultOM)]

SampleDict == DictV([x |-> 1, y |-> 2])
SlotValues == {IntV(0), IntV(1), UNBOUND, SampleDict}

BindingMenu ==
    { Immediate(IntV(1)), Immediate(IntV(0)), Immediate(NoneV), Immediate(UNBOUND),
      ImmediateWith(UNBOUND, OrDefaultMapper(IntV(0))),
      ImmediateWith(SampleDict, KeyedMapper("x", INPUT_NOT_FOUND, TRUE)),
      ImmediateWith(SampleDict, KeyedMapper("z", IntV(-1), FALSE)),
      ImmediateWith(SampleDict, KeyedMapper("z", IntV(-1), TRUE)),
      ImmediateWith(UNBOUND, KeyedMapper("z", INPUT_NOT_FOUND, TRUE)),
      ImmediateWith(UNBOUND, KeyedMapper("z", INPUT_NOT_FOUND, FALSE)),
      Contextual("slot", MustBindMapper, TRUE),
      Contextual("slot", KeyedMapper("x", INPUT_NOT_FOUND, TRUE), TRUE),
      Contextual("slot", GetDefaultMapper(IntV(-1)), FALSE),
      Contextual("slot", OrDefaultMapper(IntV(0)), FALSE),
      Callback(FunV("double"), <<IntV(1)>>, MustBindMapper, TRUE),
      Callback(FunV("double"), <<>>, MustBindMapper, TRUE),
      Callback(FunV("raise"), <<>>, MustBindMapper, TRUE),
      Callback(FunV("unbound"), <<>>, MustBindMapper, TRUE),
      Callback(FunV("raise"), <<>>, OrDefaultMapper(IntV(0)), FALSE),
      InputBinding(UNBOUND, MustBindMapper, NoneV),
      InputBinding(IntV(1), MustBindMapper, CtxVarV("slot")),
      InputBinding(IntV(1), UnwrapCtxvarThenApply(MustBindMapper), CtxVarV("slot")),
      InputBinding(IntV(0), OrDefaultMapper(IntV(1)), FunV("raise")),
      InputBinding(UNBOUND, MustBindMapper, CtxVarV("slot")) }

InitBinding ==
    /\ InitPipeline(IdleTable)
    /\ binding \in BindingMenu
    /\ env \in {("slot" :> Unset)} \cup {("slot" :> SetTo(v)) : v \in SlotValues}
    /\ hist = <<>>
    /\ probe = NoProbe
    /\ InitRegs
    /\ InitStores

\* binding(): the outcome is recorded with the cells it was resolved in.
BindingResolve ==
    /\ Len(hist) < MaxResolutions
    /\ \E r \in {InputBindingCall(binding, env)} :
          hist' = Append(hist, [out |-> r, env |-> env])
    /\ UNCHANGED <<binding, env, probe>>
    /\ UNCHANGED <<pipevars, regvars, storevars, other>>

\* ContextVar.set(v) on the cell.
SlotSet(v) ==
    /\ env' = [env EXCEPT !["slot"] = SetTo(v)]
    /\ UNCHANGED <<binding, hist, probe>>
    /\ UNCHANGED <<pipevars, regvars, storevars, other>>

NextBinding ==
    \/ BindingResolve
    \/ \E v \in SlotValues : SlotSet(v)

SpecBinding == InitBinding /\ [][NextBinding]_vars

\* ------------------------------------------------------------------------
\* Mappers on their own: the caller calls an input mapper on a source, or
\* constructs an output mapper and calls it on a return value.
\* ------------------------------------------------------------------------
Probe(op, im, om, arg) == [NoProbe EXCEPT !.op = op, !.im = im, !.om = om, !.arg = arg, !.at = "pending"]

\* Stages as a stage table may hold them: as constructed, after a run, after
\* a run that mapped its return value to no output, and constructed with
\* outputs given.
FreshStage == Stage(Fn({}, "sum", 1), <<>>, DefaultOM)
RanStage == StageRun(FreshStage, EmptyMap, applydefaults).stage
RanEmptyStage == StageRun(Stage(Fn({}, "seq", 0), <<>>, SeqOM(<<>>, {CHILL})), EmptyMap, applydefaults).stage
PresetStage == [FreshStage EXCEPT !.outputs = (DEFAULT_OUTPUT_KEY :> IntV(1))]

TableMenu ==
    {TableV(EmptyMap)} \cup
    {TableV(("A" :> st)) : st \in {FreshStage, RanStage, RanEmptyStage, PresetStage}}

DependencyProbes ==
    { Probe("dependency", DependencyMapper(fs, fo, dflt, req), DefaultOM, src) :
        fs \in {"A", "Z"}, fo \in {DEFAULT_OUTPUT_KEY, "y"}, dflt \in {NoneV, INPUT_NOT_FOUND},
        req \in BOOLEAN, src \in {UNBOUND} \cup TableMenu }

KeyedProbes ==
    { Probe("keyed", KeyedMapper(k, dflt, req), DefaultOM, src) :
        k \in {"x", "z"}, dflt \in {IntV(-1), INPUT_NOT_FOUND}, req \in BOOLEAN,
        src \in {UNBOUND, SampleDict, DictV(EmptyMap)} }

BehaviourMenu == SUBSET {STRICT, CHILL, PRESERVE, WARN_UNEXPECTED}

SequentialProbes ==
    { Probe("output", MustBindMapper, SeqOM(keys, b), SeqV(x)) :
        keys \in {<<>>, <<"x">>, <<"x", "y">>, <<"x", "x">>}, b \in BehaviourMenu,
        x \in {<<>>, <<1>>, <<1, 2>>, <<1, 2, 0>>} }

KeyedOutputProbes ==
    { Probe("output", MustBindMapper, KeyedOM(keys, b), x) :
        keys \in {<<>>, <<<<"x", "out">>>>, <<<<"x", "out">>, <<"y", "out">>>>,
                  <<<<"x", "out">>, <<"y", "b">>>>},
        b \in BehaviourMenu,
        x \in {SampleDict, DictV([x |-> 1]), DictV([x |-> 1, z |-> 0]), DictV([x |-> 1, out |-> 0])} }

\* Lists of inputs handed to _prepare_inputs_and_context: up to MaxInputs
\* inputs, logged or not, some with the same argument name, one unbound.
MaxInputs == 3

InputMenu ==
    { known(IntV(1), "a", TRUE), known(IntV(2), "a", FALSE), known(IntV(0), "b", TRUE),
      known(IntV(1), "b", FALSE), Input("c", Immediate(UNBOUND), TRUE) }

PrepareProbes ==
    { [Probe("prepare", MustBindMapper, DefaultOM, NoneV) EXCEPT !.inputs = ins] :
        ins \in UNION {[1..n -> InputMenu] : n \in 0..MaxInputs} }

InitMapper ==
    /\ InitPipeline(IdleTable)
    /\ binding = Immediate(NoneV)
    /\ env = ("slot" :> Unset)
    /\ hist = <<>>
    /\ probe \in DependencyProbes \cup KeyedProbes \cup SequentialProbes \cup KeyedOutputProbes
                    \cup PrepareProbes
    /\ InitRegs
    /\ InitStores

\* DependencyInputMapper(...)(source)
CallDependencyInputMapper ==
    /\ probe.op = "dependency" /\ probe.at = "pending"
    /\ probe' = [probe EXCEPT !.at = "done", !.out = DependencyInputMapper(probe.im, probe.arg)]
    /\ UNCHANGED <<binding, env, hist>>
    /\ UNCHANGED <<pipevars, regvars, storevars, other>>

\* KeyedInputMapper(...)(source)
CallKeyedInputMapper ==
    /\ probe.op = "keyed" /\ probe.at = "pending"
    /\ probe' = [probe EXCEPT !.at = "done", !.out = KeyedInputMapper(probe.im, probe.arg)]
    /\ UNCHANGED <<binding, env, hist>>
    /\ UNCHANGED <<pipevars, regvars, storevars, other>>

\* SequentialOutputMapper(keys, behaviour) / KeyedOutputMapper(keys,
\* behaviour): the validator of the behaviour decides.
ConstructOutputMapper ==
    /\ probe.op = "output" /\ probe.at = "pending"
    /\ \E r \in {AttrsValidator(probe.om.behaviour)} :
          probe' = [probe EXCEPT !.at = IF r.ok THEN "constructed" ELSE "rejected", !.out = r]
    /\ UNCHANGED <<binding, env, hist>>
    /\ UNCHANGED <<pipevars, regvars, storevars, other>>

\* mapper(x) on a mapper that was constructed.
CallOutputMapper ==
    /\ probe.op = "output" /\ probe.at = "constructed"
    /\ probe' = [probe EXCEPT !.at = "called", !.mapped = ApplyOutputMapper(probe.om, probe.arg)]
    /\ UNCHANGED <<binding, env, hist>>
    /\ UNCHANGED <<pipevars, regvars, storevars, other>>

\* _prepare_inputs_and_context(inputs), called in the caller's context
CallPrepareInputsAndContext ==
    /\ probe.op = "prepare" /\ probe.at = "pending"
    /\ probe' = [probe EXCEPT !.at = "done", !.prep = PrepareInputsAndContext(probe.inputs, applydefaults)]
    /\ UNCHANGED <<binding, env, hist>>
    /\ UNCHANGED <<pipevars, regvars, storevars, other>>

NextMapper ==
    \/ CallPrepareInputsAndContext
    \/ CallDependencyInputMapper
    \/ CallKeyedInputMapper
    \/ ConstructOutputMapper
    \/ CallOutputMapper

SpecMapper == InitMapper /\ [][NextMapper]_vars

\* ------------------------------------------------------------------------
\* Registration: the caller registers callables with Pipeline.stage, on a
\* pipeline constructed without stages, and applies the decorators it got.
\* ------------------------------------------------------------------------
\* Calls of Pipeline.stage and of its decorators that are recorded.
MaxRegistrations == 3

\* def f, def g, and a second function that is also named f
CallableMenu ==
    { Named("f", Fn({}, "sum", 1)), Named("g", Fn({}, "sum", 2)), Named("f", Fn({}, "seq", 0)) }

FirstArgMenu == {NoneV, StrV("s"), IntV(0)} \cup {FunV(f) : f \in CallableMenu}
NameMenu == {NoneV, StrV(""), StrV("s")}

\* inputs and output_mapper as given to Pipeline.stage: none, or one
\* positional Input, one in `inputs` and a mapper
ConfigMenu ==
    { [inputargs |-> <<>>, inputs |-> NoneV, output_mapper |-> NoneV],
      [inputargs |-> <<known(IntV(1), "a", FALSE)>>, inputs |-> <<known(IntV(2), "b", TRUE)>>,
       output_mapper |-> SeqOM(<<"x">>, {STRICT})] }

InitRegister ==
    /\ InitPipelineWith(<<>>, EmptyMap)
    /\ InitUnits
    /\ InitRegs
    /\ InitStores

Registered(op, noc, name, func, first, pre, r) ==
    [op |-> op, noc |-> noc, name |-> name, func |-> func, first |-> first, kind |-> r.kind,
     returned |-> r.returned, exc |-> r.exc, pre |-> pre, n |-> reg.n + 1]

\* pipeline.stage(noc, *cfg.inputargs, inputs=..., output_mapper=..., name=name)
CallStage(noc, cfg, name) ==
    /\ reg.n < MaxRegistrations
    /\ \E r \in {PipelineStage(noc, cfg.inputargs, cfg.inputs, cfg.output_mapper, name, stages, order)} :
          /\ stages' = r.table
          /\ order' = r.order
          /\ decorators' = IF r.kind = "decorator"
                           THEN Append(decorators, [closure |-> r.closure, noc |-> noc, name |-> name, uses |-> 0])
                           ELSE decorators
          /\ reg' = Registered("stage", noc, name, IF noc.t = "fun" THEN noc.v ELSE NoReg.func, TRUE, stages, r)
    /\ UNCHANGED <<ctx, ambient, pc, idx, kwargs, outputs, outcome, result, log, built, attempted,
                   invoked, completed, errors, start, done, last, prev, untouched, recorded>>
    /\ UNCHANGED <<unitvars, storevars, other>>

\* d(func) on a decorator d that Pipeline.stage returned
ApplyDecorator(d, func) ==
    /\ reg.n < MaxRegistrations
    /\ d \in 1..Len(decorators)
    /\ \E r \in {Decorator(decorators[d].closure, func, stages, order)} :
          /\ stages' = r.table
          /\ order' = r.order
          /\ decorators' = [decorators EXCEPT ![d].closure = r.closure, ![d].uses = @ + 1]
          /\ reg' = Registered("decorate", decorators[d].noc, decorators[d].name, func,
                               decorators[d].uses = 0, stages, r)
    /\ UNCHANGED <<ctx, ambient, pc, idx, kwargs, outputs, outcome, result, log, built, attempted,
                   invoked, completed, errors, start, done, last, prev, untouched, recorded>>
    /\ UNCHANGED <<unitvars, storevars, other>>

NextRegister ==
    \/ \E noc \in FirstArgMenu, cfg \in ConfigMenu, name \in NameMenu : CallStage(noc, cfg, name)
    \/ \E d \in 1..MaxRegistrations, func \in CallableMenu : ApplyDecorator(d, func)

SpecRegister == InitRegister /\ [][NextRegister]_vars

\* ------------------------------------------------------------------------
\* A Parameters or a Variables object under its caller's method calls
\* ------------------------------------------------------------------------
MaxStoreOps == 3

StoreNames == {"p", "q", "z"}
StoreValues == {IntV(0), IntV(1), UNSET_PARAMETER, UNSET_VARIABLE}
StoreDefaults == {NoneV, IntV(0), UNSET_PARAMETER, UNSET_VARIABLE}
InputDefaults == {NoneV, IntV(0), IntV(1), INPUT_NOT_FOUND}
StoreKwargs ==
    {EmptyMap, ("p" :> IntV(1)), ("p" :> IntV(1)) @@ ("z" :> IntV(0)),
     ("p" :> UNSET_PARAMETER) @@ ("q" :> IntV(1))}
DefinedStores ==
    {ParamsV(ParametersDefine(ps, d)) : ps \in {{}, {"p"}, {"p", "q"}},
                                        d \in {EmptyMap, ("p" :> IntV(0))}}
    \cup {VarsV(VariablesDefine(d)) : d \in {EmptyMap, ("p" :> IntV(0))}}

InitStore ==
    /\ InitPipelineWith(<<>>, EmptyMap)
    /\ InitUnits
    /\ InitRegs
    /\ store \in DefinedStores
    /\ sop = NoOp
    /\ other = NoOther

\* The record of a method call in `sop`.
StoreCall(op, args, r) ==
    [args EXCEPT !.op = op, !.ok = r.ok, !.val = r.val, !.exc = r.exc, !.pre = store,
                 !.n = sop.n + 1]

\* store.set(name, value), store[name] = value
CallSet(name, value) ==
    /\ sop.n < MaxStoreOps
    /\ \E r \in {IF store.t = "params" THEN ParametersSet(store.v, name, value)
                                       ELSE VariablesSet(store.v, name, value)} :
          /\ store' = [store EXCEPT !.v = r.self]
          /\ sop' = StoreCall("set", [NoOp EXCEPT !.name = name, !.value = value], r)
    /\ UNCHANGED <<pipevars, unitvars, regvars, other>>

\* store.sets(**kwargs)
CallSets(kw) ==
    /\ sop.n < MaxStoreOps
    /\ \E r \in {IF store.t = "params" THEN ParametersSets(store.v, kw)
                                       ELSE VariablesSets(store.v, kw)} :
          /\ store' = [store EXCEPT !.v = r.self]
          /\ sop' = StoreCall("sets", [NoOp EXCEPT !.kwargs = kw], r)
    /\ UNCHANGED <<pipevars, unitvars, regvars, other>>

\* store.get(name, default, must)
CallGet(name, default, must) ==
    /\ sop.n < MaxStoreOps
    /\ \E r \in {IF store.t = "params" THEN ParametersGet(store.v, name, default, must)
                                       ELSE VariablesGet(store.v, name, default, must)} :
          /\ store' = [store EXCEPT !.v = r.self]
          /\ sop' = StoreCall("get", [NoOp EXCEPT !.name = name, !.default = default,
                                                  !.must = must], r)
    /\ UNCHANGED <<pipevars, unitvars, regvars, other>>

\* store[name]
CallGetItem(name) ==
    /\ sop.n < MaxStoreOps
    /\ \E r \in {IF store.t = "params" THEN ParametersGetItem(store.v, name)
                                       ELSE VariablesGetItem(store.v, name)} :
          /\ store' = [store EXCEPT !.v = r.self]
          /\ sop' = StoreCall("getitem", [NoOp EXCEPT !.name = name, !.must = TRUE], r)
    /\ UNCHANGED <<pipevars, unitvars, regvars, other>>

\* del store[name]
CallDelItem(name) ==
    /\ sop.n < MaxStoreOps
    /\ \E r \in {IF store.t = "params" THEN ParametersDelItem(store.v, name)
                                       ELSE VariablesDelItem(store.v, name)} :
          /\ store' = [store EXCEPT !.v = r.self]
          /\ sop' = StoreCall("delete", [NoOp EXCEPT !.name = name], r)
    /\ UNCHANGED <<pipevars, unitvars, regvars, other>>

\* store.reset()
CallReset ==
    /\ sop.n < MaxStoreOps
    /\ \E r \in {IF store.t = "params" THEN ParametersReset(store.v)
                                       ELSE VariablesReset(store.v)} :
          /\ store' = [store EXCEPT !.v = r.self]
          /\ sop' = StoreCall("reset", NoOp, r)
    /\ UNCHANGED <<pipevars, unitvars, regvars, other>>

\* The cells of a pipeline's context whose parameters or variables are s.
WithStore(cells, s) ==
    [c \in CellNames |->
        CASE cells[c] = SetTo(RefV("self.parameters")) /\ s.t = "params" -> SetTo(s)
          [] cells[c] = SetTo(RefV("self.variables")) /\ s.t = "variables" -> SetTo(s)
          [] OTHER -> cells[c]]

\* A stage of the pipeline that owns the store resolves the input
\* param(name, "a", default, required), or var(...) for a Variables store:
\* Input.input_mapping.get() inside the pipeline's context.
CallInput(name, default, required) ==
    /\ sop.n < MaxStoreOps
    /\ \E r \in {InputBindingCall((IF store.t = "params"
                                    THEN param(name, "a", default, required, FALSE)
                                    ELSE var(name, "a", default, required, FALSE)).bind,
                                   WithStore(PipelineCtx(applydefaults), store))} :
          sop' = StoreCall("input", [NoOp EXCEPT !.name = name, !.default = default,
                                                !.required = required], r)
    /\ UNCHANGED <<store, pipevars, unitvars, regvars, other>>

NextStore ==
    \/ \E name \in StoreNames, value \in StoreValues : CallSet(name, value)
    \/ \E kw \in StoreKwargs : CallSets(kw)
    \/ \E name \in StoreNames, default \in StoreDefaults, must \in BOOLEAN :
          CallGet(name, default, must)
    \/ \E name \in StoreNames : CallGetItem(name)
    \/ \E name \in StoreNames : CallDelItem(name)
    \/ CallReset
    \/ \E name \in StoreNames, default \in InputDefaults, required \in BOOLEAN :
          CallInput(name, default, required)

SpecStore == InitStore /\ [][NextStore]_vars

\* ------------------------------------------------------------------------
\* Runs of a pipeline whose stages are registered again
\* ------------------------------------------------------------------------
\* Stages registered as A, B, C through Pipeline.stage, B depending on A
\* and C on both.
RerunTable ==
    [k \in {"A", "B", "C"} |->
        CASE k = "A" -> Stage(Named("A", Fn({}, "sum", 1)), <<>>, DefaultOM)
          [] k = "B" -> Stage(Named("B", Fn({"a"}, "sum", 1)),
                              <<dependency("A", "a", DEFAULT_OUTPUT_KEY, NoneV, TRUE, FALSE)>>,
                              DefaultOM)
          [] k = "C" -> Stage(Named("C", Fn({"a", "b"}, "sum", 0)),
                              <<dependency("A", "a", DEFAULT_OUTPUT_KEY, NoneV, TRUE, FALSE),
                                dependency("B", "b", DEFAULT_OUTPUT_KEY, NoneV, TRUE, FALSE)>>,
                              DefaultOM)]

\* The callables a stage is replaced by, with the inputs given for them.
ReplacementMenu ==
    { [func |-> Named("f", Fn({}, "sum", 2)), inputs |-> <<>>],
      [func |-> Named("g", Fn({"a"}, "sum", 0)),
       inputs |-> <<dependency("A", "a", DEFAULT_OUTPUT_KEY, NoneV, TRUE, FALSE)>>],
      [func |-> Named("h", Fn({}, "raise", 0)), inputs |-> <<>>] }

InitRerun ==
    /\ InitPipeline(RerunTable)
    /\ InitUnits
    /\ InitRegs
    /\ InitStores

\* pipeline.stage(func, *inputs, name=key) between two runs, key a name
\* that is registered already: the entry is a new Stage.
Reregister(key, func, inputs) ==
    /\ pc = "idle"
    /\ reg.n < MaxRegistrations
    /\ \E r \in {PipelineStage(FunV(func), inputs, NoneV, NoneV, StrV(key), stages, order)} :
          /\ stages' = r.table
          /\ order' = r.order
          /\ reg' = Registered("stage", FunV(func), StrV(key), func, TRUE, stages, r)
    /\ done' = [done EXCEPT ![key] = FALSE]
    /\ recorded' = [recorded EXCEPT ![key] = "none"]
    /\ untouched' = FALSE
    /\ UNCHANGED <<ctx, ambient, pc, idx, kwargs, outputs, outcome, result, log, built, attempted,
                   invoked, completed, errors, start, last, prev, decorators>>
    /\ UNCHANGED <<unitvars, storevars, other>>

NextRerun ==
    \/ \E kw \in OverrideChoices : RunBegin(kw)
    \/ RunStep
    \/ RunReturn
    \/ \E key \in {"A", "B", "C"}, rp \in ReplacementMenu : Reregister(key, rp.func, rp.inputs)

SpecRerun == InitRerun /\ [][NextRerun]_vars

\* ------------------------------------------------------------------------
\* The pipeline next to a second pipeline of the same caller
\* ------------------------------------------------------------------------
MaxOtherRuns == 2

\* The caller constructs the second pipeline: Pipeline._ctx copies the
\* caller's context and runs _applydefaults in the copy.
ConstructOther ==
    /\ pc = "idle"
    /\ ~other.made
    /\ \E c \in {ContextRun(ambient, ambient, PipelineCtxOf("other", ambient))} :
          /\ other' = [made |-> TRUE, cells |-> c.own, runs |-> 0]
          /\ ambient' = c.caller
    /\ UNCHANGED <<order, stages, ctx, pc, idx, kwargs, outputs, outcome, result, log, built,
                   attempted, invoked, completed, errors, start, done, last, prev, untouched,
                   recorded>>
    /\ UNCHANGED <<unitvars, regvars, storevars>>

\* The caller calls run() on the second pipeline: _init_run_logger and
\* run_stage for "A", "B", "C", each through Context.run on that pipeline's
\* context.
RunOther ==
    /\ pc = "idle"
    /\ other.made
    /\ other.runs < MaxOtherRuns
    /\ \E c \in {ContextRun(other.cells, ambient,
                             [other.cells EXCEPT !["LOG"] = SetTo(RefV("other.run_logger")),
                                                 !["STAGE"] = SetTo(RefV("other.C"))])} :
          /\ other' = [other EXCEPT !.cells = c.own, !.runs = @ + 1]
          /\ ambient' = c.caller
    /\ UNCHANGED <<order, stages, ctx, pc, idx, kwargs, outputs, outcome, result, log, built,
                   attempted, invoked, completed, errors, start, done, last, prev, untouched,
                   recorded>>
    /\ UNCHANGED <<unitvars, regvars, storevars>>

NextAmbient ==
    \/ \E kw \in OverrideChoices : RunBegin(kw)
    \/ RunStep
    \/ RunReturn
    \/ ConstructOther
    \/ RunOther

SpecAmbient == Init /\ [][NextAmbient]_vars

\* ------------------------------------------------------------------------
\* Helpers of the properties
\* ------------------------------------------------------------------------
Range(q) == {q[i] : i \in 1..Len(q)}
IndexOf(q, x) == CHOOSE i \in 1..Len(q) : q[i] = x
NoDuplicates(q) == \A i, j \in 1..Len(q) : q[i] = q[j] => i = j
\* Stage.run of the stage at position i raised in the current run().
RaisedAt(i) == i <= Len(attempted) /\ attempted[i] \notin completed
\* A Stage.run of the current run() raised something else than ExitPipeline.
FatalFailure == \E i \in 1..Len(errors) : errors[i][2] # "ExitPipeline"
Returned == pc = "idle" /\ outcome = "returned"

\* ------------------------------------------------------------------------
\* C1: within one run() the stages are attempted one at a time in the
\* insertion order of the table: the keys attempted so far are a prefix of
\* the table's keys, a function is invoked only when its stage is the one
\* being attempted (every earlier one has been attempted), and no function
\* is invoked twice in the run.
\* ------------------------------------------------------------------------
C1_InOrderOnce ==
    /\ Len(attempted) <= Len(order)
    /\ \A i \in 1..Len(attempted) : attempted[i] = order[i]
    /\ Range(invoked) \subseteq Range(attempted)
    /\ NoDuplicates(invoked)
    /\ \A i, j \in 1..Len(invoked) :
          i < j => IndexOf(order, invoked[i]) < IndexOf(order, invoked[j])
    /\ pc = "running" => Len(attempted) = idx - 1

C1_Witness == Returned /\ attempted = order /\ Len(invoked) = Len(order)

\* ------------------------------------------------------------------------
\* C2: if a stage raises during run(), no later-registered stage's function
\* is invoked in that run; the stages completed before keep their recorded
\* outputs, and every stage after the failing one that had has_run = false
\* and empty outputs when run() started still has them when run() ends.
\* ------------------------------------------------------------------------
C2_NothingRunsAfterFailure ==
    \A i \in 1..Len(order) :
        RaisedAt(i) =>
            /\ \A j \in (i + 1)..Len(order) : order[j] \notin Range(invoked)
            /\ \A j \in 1..(i - 1) :
                  order[j] \in completed => stages[order[j]].has_run
            /\ Returned =>
                  \A j \in (i + 1)..Len(order) :
                      (~start[order[j]].has_run /\ start[order[j]].outputs = EmptyMap)
                          => (~stages[order[j]].has_run /\ stages[order[j]].outputs = EmptyMap)

\* ------------------------------------------------------------------------
\* C3 (as claimed): on a fatal stage failure, i.e. a stage raising anything
\* but ExitPipeline, run() does not return normally.
\* ------------------------------------------------------------------------
C3_FatalFailureRaises == FatalFailure => ~Returned

\* C3 (amended): a fatal stage failure never reaches the caller of run():
\* run_stage logs it and wraps it into ExitPipeline, the loop of run()
\* catches that and logs once more, and run() returns normally.
C3_FatalFailureIsCaught ==
    /\ outcome # "raised"
    /\ FatalFailure =>
          /\ pc = "idle" => outcome = "returned"
          /\ "stage.exception" \in Range(log)
          /\ Len(SelectSeq(log, LAMBDA l : l # "stage.exception")) = Len(errors)

C3_Witness == Returned /\ FatalFailure

\* ------------------------------------------------------------------------
\* C4: run() returns a mapping instead of propagating a stage's exception:
\* the mapping has a key for a stage iff its Stage.run completed in this
\* run(), the value under the key is the raw return value (the one the
\* stage's output mapper turned into its outputs), and each failure was
\* logged by the handler of the loop.
\* ------------------------------------------------------------------------
C4_ResultIsCompletedRaw ==
    /\ pc = "running" => DOMAIN outputs = completed
    /\ Returned =>
          /\ DOMAIN result = completed
          /\ Len(SelectSeq(log, LAMBDA l : l # "stage.exception")) = Len(errors)
          /\ untouched =>
                \A k \in completed :
                    LET m == ApplyOutputMapper(stages[k].output_mapper, result[k])
                    IN m.ok /\ m.val = stages[k].outputs

C4_Witness ==
    /\ Returned
    /\ errors # <<>>
    /\ completed # {}
    /\ \E k \in completed : stages[k].output_mapper.type # "default"

\* ------------------------------------------------------------------------
\* C5: run() is idempotent: two run() calls in a row with the same
\* overrides return identical mappings, for every stage table, also one in
\* which a stage depends on a stage registered after it.
\* ------------------------------------------------------------------------
C5_Idempotent == (Returned /\ prev.valid) => result = prev.result

\* ------------------------------------------------------------------------
\* C6: no stale stage state is observable: whenever a stage resolves its
\* inputs during run() the stages with has_run = true are exactly the
\* stages that completed in this same run, and after run() has returned a
\* stage that did not complete in it shows has_run = false and no outputs.
\* ------------------------------------------------------------------------
C6_NoStaleState ==
    /\ pc = "running" => {k \in DOMAIN stages : stages[k].has_run} = completed
    /\ (Returned /\ untouched) =>
          \A k \in DOMAIN stages :
              k \notin completed => (~stages[k].has_run /\ stages[k].outputs = EmptyMap)

\* ------------------------------------------------------------------------
\* C7: output wiring.
\* ------------------------------------------------------------------------
\* Input i of the stage that run_stage just ran is a required dependency on
\* an earlier-registered stage that completed in this run.
WiredInput(i) ==
    LET inp == stages[last.key].inputs[i]
    IN /\ inp.bind.mapper.type = "dependency"
       /\ inp.bind.mapper.required
       /\ inp.bind.mapper.from_stage \in completed
       /\ IndexOf(order, inp.bind.mapper.from_stage) < IndexOf(order, last.key)

\* The function received, for input i, the output the dependency names.
ReceivedOutput(i) ==
    LET inp == stages[last.key].inputs[i]
        from == stages[inp.bind.mapper.from_stage]
    IN /\ inp.bind.mapper.from_output \in DOMAIN from.outputs
       /\ inp.as_arg \in DOMAIN last.received
       /\ last.received[inp.as_arg] = from.outputs[inp.bind.mapper.from_output]

\* Nothing replaces the value of input i: no override and no later input
\* has its argument name.
Unshadowed(i) ==
    LET inputs == stages[last.key].inputs
    IN /\ inputs[i].as_arg \notin DOMAIN last.kwargs
       /\ \A j \in (i + 1)..Len(inputs) : inputs[j].as_arg # inputs[i].as_arg

StageJustCalled == pc = "running" /\ last.op = "run" /\ last.via = "pipeline" /\ last.invoked

FullRunHasAllKeys == (Returned /\ Len(attempted) = Len(order) /\ errors = <<>>) => DOMAIN result = Range(order)

\* C7 (as claimed): the value passed to the function for the argument of a
\* required dependency input on output k of an earlier stage A that
\* completed in this run equals A.outputs[k]; and the result of a fully
\* successful run has exactly the registered keys.
C7_WiredAlways ==
    /\ StageJustCalled =>
          \A i \in 1..Len(stages[last.key].inputs) : WiredInput(i) => ReceivedOutput(i)
    /\ FullRunHasAllKeys

\* C7 (amended): the same, for every such input whose argument is named
\* neither by the overrides of run() nor by a later input of the stage (an
\* override or a later input of the same as_arg replaces the value).
C7_WiredUnlessShadowed ==
    /\ StageJustCalled =>
          \A i \in 1..Len(stages[last.key].inputs) :
              (WiredInput(i) /\ Unshadowed(i)) => ReceivedOutput(i)
    /\ FullRunHasAllKeys

C7_Witness ==
    /\ StageJustCalled
    /\ last.ok
    /\ last.key = "C"
    /\ Len(stages["C"].inputs) = 2
    /\ \A i \in 1..2 : WiredInput(i) /\ Unshadowed(i)
    /\ IndexOf(order, "C") = 3

\* ------------------------------------------------------------------------
\* C8: a successful Stage.run() whose function returned v sets
\* outputs = output_mapper(v), which is {"return": v} for the default
\* mapper, sets has_run = true and returns the raw v; the default mapper
\* never fails.
\* ------------------------------------------------------------------------
C8_RunStoresMappedReturnsRaw ==
    last.op = "run" =>
        \A self \in {stages[last.key]} :
        \A v \in {CallFunction(self.function, last.received)} :
            /\ last.ok =>
                  /\ last.invoked /\ v.ok
                  /\ self.outputs = ApplyOutputMapper(self.output_mapper, v.val).val
                  /\ self.output_mapper.type = "default" => self.outputs = (DEFAULT_OUTPUT_KEY :> v.val)
                  /\ self.has_run
                  /\ last.val = v.val
                  /\ last.via = "pipeline" => outputs[last.key] = v.val
            /\ (last.invoked /\ v.ok /\ self.output_mapper.type = "default") => last.ok

C8_Witness ==
    /\ last.op = "run"
    /\ last.ok
    /\ stages[last.key].output_mapper.type = "sequential"
    /\ stages[last.key].outputs # EmptyMap
    /\ ~last.pre.has_run

\* ------------------------------------------------------------------------
\* C9: Stage.reset() sets has_run = false and outputs = {} from any state
\* and leaves function, inputs and output_mapper alone, so that the stage
\* is again as it was constructed; a run() right after reset() does what
\* the same run() does on the freshly constructed stage.
\* ------------------------------------------------------------------------
C9_ResetRestoresFresh ==
    /\ last.op = "reset" =>
          /\ ~stages[last.key].has_run
          /\ stages[last.key].outputs = EmptyMap
          /\ stages[last.key].function = last.pre.function
          /\ stages[last.key].inputs = last.pre.inputs
          /\ stages[last.key].output_mapper = last.pre.output_mapper
          /\ stages[last.key] = built[last.key]
    /\ (last.op = "run" /\ last.afterReset) =>
          \A fresh \in {StageRun(built[last.key], last.kwargs, Deref(ambient, stages))} :
              /\ last.ok = fresh.ok
              /\ last.val = fresh.val
              /\ last.exc = fresh.exc
              /\ last.received = fresh.received
              /\ stages[last.key] = fresh.stage

C9_Witness == last.op = "run" /\ last.afterReset /\ last.dirtyReset /\ last.ok

\* ------------------------------------------------------------------------
\* C10 (as claimed): for any output mapper, outputs is non-empty and
\* has_run = true iff the stage has completed a run since construction or
\* the last reset.
\* ------------------------------------------------------------------------
C10_NonEmptyIffCompleted ==
    \A k \in DOMAIN stages :
        (stages[k].outputs # EmptyMap /\ stages[k].has_run) <=> done[k]

\* C10 (amended): has_run = true iff the stage has completed a run since
\* construction or the last reset; outputs is empty when it has not, and
\* non-empty when it has and the output mapper is the default one (another
\* mapper may map the return value to the empty mapping).
C10_HasRunIffCompleted ==
    \A k \in DOMAIN stages :
        /\ stages[k].has_run <=> done[k]
        /\ ~done[k] => stages[k].outputs = EmptyMap
        /\ (done[k] /\ stages[k].output_mapper.type = "default") => stages[k].outputs # EmptyMap

C10_Witness ==
    \E k \in DOMAIN stages :
        /\ done[k]
        /\ stages[k].has_run
        /\ stages[k].outputs = EmptyMap
        /\ last.op = "run" /\ ~last.ok /\ last.key = k

\* ------------------------------------------------------------------------
\* C11: a Stage.run() that raises, be it while resolving the inputs, in the
\* function or in the output mapper, hands the exception of the failing
\* part to its caller, leaves has_run and outputs at the values they had
\* before the call, and has not invoked the function when it was the input
\* resolution that failed.
\* ------------------------------------------------------------------------
\* The cells the latest Stage.run resolved its inputs in.
CellsOfLast == Deref(IF last.via = "pipeline" THEN ctx ELSE ambient, stages)

C11_FailedRunLeavesState ==
    (last.op = "run" /\ ~last.ok) =>
        \A self \in {stages[last.key]} :
        \A prep \in {PrepareInputsAndContext(self.inputs, CellsOfLast)} :
        \A output \in {CallFunction(self.function, last.received)} :
            /\ self.has_run = last.pre.has_run
            /\ self.outputs = last.pre.outputs
            /\ self = last.pre
            /\ last.exc.type # "none"
            /\ ~prep.ok <=> ~last.invoked
            /\ ~prep.ok => last.exc = prep.exc /\ last.exc.type = "UnboundInputException"
            /\ (prep.ok /\ ~output.ok) => last.exc = output.exc
            /\ (prep.ok /\ output.ok) =>
                  \A mapped \in {ApplyOutputMapper(self.output_mapper, output.val)} :
                      ~mapped.ok /\ last.exc = mapped.exc

C11_Witness ==
    /\ last.op = "run" /\ ~last.ok
    /\ last.invoked
    /\ CallFunction(stages[last.key].function, last.received).ok
    /\ stages[last.key].output_mapper.type = "sequential"

\* ------------------------------------------------------------------------
\* C12: the overrides are merged on top of the resolved inputs: the function
\* receives, for every name in the overrides, the override, and for every
\* other argument the resolved input; Pipeline.run hands its overrides to
\* every stage; an override the function's signature lacks is passed all
\* the same and fails the call.
\* ------------------------------------------------------------------------
C12_OverridesOnTop ==
    /\ (last.op = "run" /\ last.via = "pipeline") => last.kwargs = kwargs
    /\ (last.op = "run" /\ last.invoked) =>
          \A self \in {stages[last.key]} :
          \A prep \in {PrepareInputsAndContext(self.inputs, CellsOfLast)} :
              /\ prep.ok
              /\ DOMAIN last.received = DOMAIN prep.prepared \cup DOMAIN last.kwargs
              /\ \A n \in DOMAIN last.kwargs : last.received[n] = last.kwargs[n]
              /\ \A n \in DOMAIN prep.prepared \ DOMAIN last.kwargs :
                    last.received[n] = prep.prepared[n]
              /\ (DOMAIN last.kwargs \ self.function.params # {}) =>
                    (~last.ok /\ last.exc.type = "TypeError")

C12_Witness ==
    /\ last.op = "run" /\ last.via = "pipeline" /\ last.ok
    /\ last.key = "C"
    /\ Len(stages["C"].inputs) = 2
    /\ stages["C"].function.params = {"a", "b"}
    /\ "a" \in DOMAIN last.kwargs
    /\ last.received["b"] = stages["B"].outputs[DEFAULT_OUTPUT_KEY]
    /\ last.received["a"] # stages["A"].outputs[DEFAULT_OUTPUT_KEY]

\* ------------------------------------------------------------------------
\* C13: a binding whose source is bound resolves to mapper(source) and
\* leaves the deferred source alone, also when one is set; the deferred
\* source is handed to the mapper only when the source is unbound and there
\* is a deferred source; with neither, the mapper receives UNBOUND, on which
\* must_bind fails.
\* ------------------------------------------------------------------------
PlainMapper(m) == ~m.unwrap /\ ~m.call

C13_SourceBeforeDefer ==
    \A i \in 1..Len(hist) :
    \A h \in {hist[i]} :
        /\ binding.source # UNBOUND =>
              /\ h.out.touched = "none"
              /\ PlainMapper(binding.mapper) =>
                    \A direct \in {ApplyBase(binding.mapper, binding.source)} :
                        /\ h.out.ok = direct.ok
                        /\ direct.ok => h.out.val = direct.val
              /\ binding.mapper = MustBindMapper => (h.out.ok /\ h.out.val = binding.source)
        /\ (binding.source = UNBOUND /\ binding.defer # NoneV) =>
              /\ binding.mapper.unwrap => h.out.touched = "read"
              /\ binding.mapper.call => h.out.touched = "called"
              /\ binding.mapper = MustBindMapper => (h.out.ok /\ h.out.val = binding.defer)
              /\ binding.mapper.type = "or_default" /\ PlainMapper(binding.mapper) =>
                    (h.out.ok /\ h.out.val = binding.defer)
        /\ (binding.source = UNBOUND /\ binding.defer = NoneV) =>
              /\ h.out.touched = "none"
              /\ binding.mapper = MustBindMapper =>
                    (~h.out.ok /\ h.out.exc.type = "UnboundInputException"
                               /\ h.out.exc.cause = "ValueError")
              /\ binding.mapper.type = "or_default" =>
                    (h.out.ok /\ h.out.val = binding.mapper.default)

C13_Witness ==
    /\ Len(hist) = MaxResolutions
    /\ binding.source # UNBOUND
    /\ binding.defer = FunV("raise")
    /\ hist[1].out.ok

\* ------------------------------------------------------------------------
\* C14: whatever exception (a subclass of Exception) the resolution of a
\* binding meets, raised by the mapper, by the read of the context cell or
\* by the callback, leaves InputBinding.__call__ as one
\* UnboundInputException whose cause is that exception; no other type of
\* exception leaves it.
\* ------------------------------------------------------------------------
C14_FailuresAreUnboundInput ==
    \A i \in 1..Len(hist) :
    \A h \in {hist[i]} :
    \A raw \in {ApplyMapper(binding.mapper, BindingArgument(binding), h.env)} :
        /\ h.out.ok <=> raw.ok
        /\ ~h.out.ok =>
              /\ h.out.exc.type = "UnboundInputException"
              /\ h.out.exc.cause = raw.exc.type
              /\ raw.exc.type \notin {"none", "UnboundInputException"}
        /\ (binding.source = UNBOUND /\ binding.mapper.unwrap /\ ~h.env["slot"].set) =>
              (~h.out.ok /\ h.out.exc.cause = "LookupError")
        /\ (binding = Contextual("slot", MustBindMapper, TRUE) /\ h.env["slot"] = SetTo(UNBOUND)) =>
              (~h.out.ok /\ h.out.exc.cause = "ValueError")
        /\ binding = Callback(FunV("raise"), <<>>, MustBindMapper, TRUE) =>
              (~h.out.ok /\ h.out.exc.cause = "RuntimeError")
        /\ binding = ImmediateWith(SampleDict, KeyedMapper("z", IntV(-1), TRUE)) =>
              (~h.out.ok /\ h.out.exc.cause = "UndefinedInputException")

C14_Witness ==
    /\ Len(hist) = 2
    /\ ~hist[1].out.ok /\ hist[1].out.exc.cause = "LookupError"
    /\ ~hist[2].out.ok /\ hist[2].out.exc.cause = "ValueError"

\* ------------------------------------------------------------------------
\* C15: a deferred binding is evaluated at each resolution: a binding on a
\* cell yields the mapper's value for what the cell holds at that call, so
\* that resolutions before and after a change of the cell yield the old and
\* the new value; a callback binding calls fun(*args) at each resolution;
\* an immediate binding keeps yielding its source; and with get_first
\* disabled the mapper is handed the cell itself and can answer for a cell
\* that was never set.
\* ------------------------------------------------------------------------
C15_DeferredEvaluatedEachTime ==
    \A i \in 1..Len(hist) :
    \A h \in {hist[i]} :
    \A cell \in {h.env["slot"]} :
        /\ binding = Contextual("slot", MustBindMapper, TRUE) =>
              IF cell.set /\ cell.val # UNBOUND
              THEN h.out.ok /\ h.out.val = cell.val /\ h.out.touched = "read"
              ELSE ~h.out.ok
        /\ binding = Contextual("slot", KeyedMapper("x", INPUT_NOT_FOUND, TRUE), TRUE) =>
              (h.out.ok <=> (cell.set /\ cell.val = SampleDict))
        /\ (binding.source = UNBOUND /\ binding.defer.t = "fun" /\ binding.mapper.call) =>
              h.out.touched = "called"
        /\ binding = Callback(FunV("double"), <<IntV(1)>>, MustBindMapper, TRUE) =>
              (h.out.ok /\ h.out.val = IntV(2))
        /\ (binding.source # UNBOUND /\ binding.defer = NoneV /\ binding.mapper = MustBindMapper) =>
              (h.out.ok /\ h.out.val = binding.source)
        /\ binding = Contextual("slot", GetDefaultMapper(IntV(-1)), FALSE) =>
              (h.out.ok /\ h.out.val = IF cell.set THEN cell.val ELSE IntV(-1))
        /\ binding = Contextual("slot", OrDefaultMapper(IntV(0)), FALSE) =>
              (h.out.ok /\ h.out.val = CtxVarV("slot"))

C15_Witness ==
    /\ Len(hist) = 2
    /\ binding = Contextual("slot", MustBindMapper, TRUE)
    /\ hist[1].out.ok /\ hist[2].out.ok
    /\ hist[1].out.val = IntV(0) /\ hist[2].out.val = IntV(1)

\* ------------------------------------------------------------------------
\* C16: DependencyInputMapper with required = true raises
\* UndefinedInputException in four cases that its message tells apart: the
\* stage table is unbound; the named stage is not in the table; the stage
\* has has_run = false; the stage has run and its outputs lack the named
\* key.  In the remaining case it returns outputs[from_output].
\* ------------------------------------------------------------------------
DependencyCalled == probe.op = "dependency" /\ probe.at = "done"

DependencyFails(msg) ==
    /\ ~probe.out.ok
    /\ probe.out.exc.type = "UndefinedInputException"
    /\ probe.out.exc.msg = msg

C16_RequiredDependency ==
    (DependencyCalled /\ probe.im.required) =>
        \A m \in {probe.im} :
        \A source \in {probe.arg} :
            IF source = UNBOUND THEN DependencyFails("is undefined")
            ELSE IF m.from_stage \notin DOMAIN source.v THEN DependencyFails("not found in source")
            ELSE IF ~source.v[m.from_stage].has_run THEN DependencyFails("has not run yet")
            ELSE IF m.from_output \notin DOMAIN source.v[m.from_stage].outputs
                 THEN DependencyFails("completed and did not produce output")
            ELSE probe.out.ok /\ probe.out.val = source.v[m.from_stage].outputs[m.from_output]

C16_Witness ==
    /\ DependencyCalled /\ probe.im.required
    /\ probe.arg = TableV(("A" :> RanStage))
    /\ probe.im.from_stage = "A"
    /\ probe.im.from_output = "y"
    /\ ~probe.out.ok

\* ------------------------------------------------------------------------
\* C17: DependencyInputMapper with required = false never raises: it returns
\* the named output when the stage is in the table and has that output, and
\* the default in every other case: table unbound, stage absent, stage not
\* yet run, output key absent.
\* ------------------------------------------------------------------------
C17_OptionalNeverRaises ==
    (DependencyCalled /\ ~probe.im.required) =>
        \A m \in {probe.im} :
        \A source \in {probe.arg} :
            /\ probe.out.ok
            /\ probe.out.val =
                  IF source = UNBOUND THEN m.default
                  ELSE IF m.from_stage \notin DOMAIN source.v THEN m.default
                  ELSE IF m.from_output \notin DOMAIN source.v[m.from_stage].outputs THEN m.default
                  ELSE source.v[m.from_stage].outputs[m.from_output]

\* ------------------------------------------------------------------------
\* C18: KeyedInputMapper: an unbound source fails when required and yields
\* the default when not; a bound source without the key fails when required
\* and yields the default when not; a source with the key yields the value
\* at the key, required or not.
\* ------------------------------------------------------------------------
KeyedCalled == probe.op = "keyed" /\ probe.at = "done"

KeyedFails ==
    /\ ~probe.out.ok
    /\ probe.out.exc.type = "UndefinedInputException"

C19_ConstructedIffExactlyOne ==
    (probe.op = "output" /\ probe.at # "pending") =>
        /\ probe.out.ok <=> Cardinality(probe.om.behaviour \cap {STRICT, CHILL, PRESERVE}) = 1
        /\ probe.at = "called" => probe.mapped.exc.msg # "Invalid behaviour value"

\* ------------------------------------------------------------------------
\* C20: SequentialOutputMapper, whatever its behaviour, maps a sequence as
\* long as keys to the dict {keys[i]: x[i]} over the positions i (of two
\* positions with one key the later one gives the value); with behaviour
\* STRICT every shorter or longer sequence raises the length-mismatch
\* ValueError and yields no mapping.
\* ------------------------------------------------------------------------
SequentialCalled == probe.op = "output" /\ probe.om.type = "sequential" /\ probe.at = "called"

C20_SequentialZipsOrStrictFails ==
    SequentialCalled =>
        \A keys \in {probe.om.seqkeys} :
        \A x \in {probe.arg.v} :
        \A r \in {probe.mapped} :
            /\ Len(x) = Len(keys) =>
                  /\ r.ok
                  /\ DOMAIN r.val = Range(keys)
                  /\ \A i \in 1..Len(keys) :
                        (\A j \in (i + 1)..Len(keys) : keys[j] # keys[i]) =>
                            r.val[keys[i]] = IntV(x[i])
            /\ (Len(x) # Len(keys) /\ probe.om.behaviour = {STRICT}) =>
                  /\ ~r.ok
                  /\ r.exc.type = "ValueError"
                  /\ r.exc.msg = "does not match"
                  /\ r.val = EmptyMap
            /\ (Len(x) # Len(keys) /\ STRICT \in probe.om.behaviour) => ~r.ok

C20_Witness ==
    /\ SequentialCalled
    /\ probe.om.behaviour = {STRICT}
    /\ probe.om.seqkeys = <<"x", "y">>
    /\ Len(probe.arg.v) = 3
    /\ ~probe.mapped.ok

\* ------------------------------------------------------------------------
\* C21.  A SequentialOutputMapper called on a sequence x whose length
\* differs from that of keys: when CHILL decides (CHILL given, STRICT not)
\* the result is exactly the dict {keys[i]: x[i]} over the positions
\* i < min(len(keys), len(x)), everything beyond dropped; when PRESERVE
\* decides (PRESERVE given, STRICT and CHILL not) the result is that prefix
\* dict plus, exactly when x is longer than keys, the remainder x[len(keys):]
\* under "_extra"; a shorter x gives no "_extra" entry.
\* ------------------------------------------------------------------------
ChillDecides(b) == STRICT \notin b /\ CHILL \in b
PreserveDecides(b) == STRICT \notin b /\ CHILL \notin b /\ PRESERVE \in b

\* m holds, for every key among the first n of keys, the value of x at the
\* last of the first n positions with that key.
HoldsPrefix(m, keys, x, n) ==
    /\ {keys[i] : i \in 1..n} \subseteq DOMAIN m
    /\ \A i \in 1..n :
          (\A j \in (i + 1)..n : keys[j] # keys[i]) => m[keys[i]] = IntV(x[i])

C21_SequentialChillAndPreserve ==
    SequentialCalled =>
        \A keys \in {probe.om.seqkeys} :
        \A x \in {probe.arg.v} :
        \A r \in {probe.mapped} :
        \A n \in {Min(Len(keys), Len(x))} :
            /\ (Len(x) # Len(keys) /\ ChillDecides(probe.om.behaviour)) =>
                  /\ r.ok
                  /\ DOMAIN r.val = {keys[i] : i \in 1..n}
                  /\ HoldsPrefix(r.val, keys, x, n)
            /\ (Len(x) > Len(keys) /\ PreserveDecides(probe.om.behaviour)) =>
                  /\ r.ok
                  /\ DOMAIN r.val = {keys[i] : i \in 1..n} \cup {EXTRA_MAPPING_KEY}
                  /\ HoldsPrefix(r.val, keys, x, n)
                  /\ r.val[EXTRA_MAPPING_KEY] = SeqV(SubSeq(x, Len(keys) + 1, Len(x)))
            /\ (Len(x) < Len(keys) /\ PreserveDecides(probe.om.behaviour)) =>
                  /\ r.ok
                  /\ DOMAIN r.val = {keys[i] : i \in 1..n}
                  /\ EXTRA_MAPPING_KEY \notin DOMAIN r.val
                  /\ HoldsPrefix(r.val, keys, x, n)

C21_Witness ==
    /\ SequentialCalled
    /\ probe.om.behaviour = {PRESERVE}
    /\ probe.om.seqkeys = <<"x">>
    /\ probe.arg.v = <<1, 2, 0>>
    /\ probe.mapped.ok
    /\ probe.mapped.val = ("x" :> IntV(1)) @@ (EXTRA_MAPPING_KEY :> SeqV(<<2, 0>>))

\* ------------------------------------------------------------------------
\* C22.  A KeyedOutputMapper of any behaviour, called on a dict x whose key
\* set equals the key set of keys, returns {keys[k]: x[k]} over the declared
\* keys k (of two keys renamed to one name the later one gives the value);
\* with behaviour STRICT a dict with a missing or an extra key raises the
\* shape-mismatch ValueError and yields no mapping.
\* ------------------------------------------------------------------------
KeyedOutputCalled == probe.op = "output" /\ probe.om.type = "keyed" /\ probe.at = "called"

\* m holds, for every declared key present in x, the value of x under the
\* name the last such key is renamed to.
HoldsRenamed(m, keys, x) ==
    \A i \in 1..Len(keys) :
        (/\ keys[i][1] \in DOMAIN x
         /\ \A j \in (i + 1)..Len(keys) : keys[j][1] \in DOMAIN x => keys[j][2] # keys[i][2])
            => (keys[i][2] \in DOMAIN m /\ m[keys[i][2]] = IntV(x[keys[i][1]]))

RenamedNames(keys, x) == {keys[i][2] : i \in {j \in 1..Len(keys) : keys[j][1] \in DOMAIN x}}

C22_KeyedExactOrStrictFails ==
    KeyedOutputCalled =>
        \A keys \in {probe.om.dictkeys} :
        \A x \in {probe.arg.v} :
        \A r \in {probe.mapped} :
            /\ DOMAIN x = KeysOf(keys) =>
                  /\ r.ok
                  /\ DOMAIN r.val = {keys[i][2] : i \in 1..Len(keys)}
                  /\ HoldsRenamed(r.val, keys, x)
            /\ (DOMAIN x # KeysOf(keys) /\ probe.om.behaviour = {STRICT}) =>
                  /\ ~r.ok
                  /\ r.exc.type = "ValueError"
                  /\ r.exc.msg = "do not match"
                  /\ r.val = EmptyMap
            /\ (DOMAIN x # KeysOf(keys) /\ STRICT \in probe.om.behaviour) => ~r.ok

C22_Witness ==
    /\ KeyedOutputCalled
    /\ probe.om.dictkeys = <<<<"x", "out">>, <<"y", "b">>>>
    /\ probe.arg = SampleDict
    /\ probe.om.behaviour = {CHILL}
    /\ probe.mapped.ok
    /\ probe.mapped.val = ("out" :> IntV(1)) @@ ("b" :> IntV(2))

\* ------------------------------------------------------------------------
\* C23.  A KeyedOutputMapper called on a dict x whose key set differs from
\* that of keys: when CHILL decides, the result is exactly {keys[k]: x[k]}
\* over the keys k present in both; when PRESERVE decides, the result is that
\* renamed intersection updated with every entry of x whose key is not
\* declared, each under its own key and value (so such an entry takes the
\* place of a renamed one of the same name).
\* ------------------------------------------------------------------------
Undeclared(keys, x) == {k \in DOMAIN x : k \notin KeysOf(keys)}

C23_KeyedChillAndPreserve ==
    KeyedOutputCalled =>
        \A keys \in {probe.om.dictkeys} :
        \A x \in {probe.arg.v} :
        \A r \in {probe.mapped} :
            /\ (DOMAIN x # KeysOf(keys) /\ ChillDecides(probe.om.behaviour)) =>
                  /\ r.ok
                  /\ DOMAIN r.val = RenamedNames(keys, x)
                  /\ HoldsRenamed(r.val, keys, x)
            /\ (DOMAIN x # KeysOf(keys) /\ PreserveDecides(probe.om.behaviour)) =>
                  /\ r.ok
                  /\ DOMAIN r.val = RenamedNames(keys, x) \cup Undeclared(keys, x)
                  /\ \A k \in Undeclared(keys, x) : r.val[k] = IntV(x[k])
                  /\ \A i \in 1..Len(keys) :
                        (/\ keys[i][1] \in DOMAIN x
                         /\ keys[i][2] \notin Undeclared(keys, x)
                         /\ \A j \in (i + 1)..Len(keys) :
                               keys[j][1] \in DOMAIN x => keys[j][2] # keys[i][2])
                            => r.val[keys[i][2]] = IntV(x[keys[i][1]])

C23_Witness ==
    /\ KeyedOutputCalled
    /\ probe.om.dictkeys = <<<<"x", "out">>, <<"y", "b">>>>
    /\ probe.arg = DictV([x |-> 1, z |-> 0])
    /\ probe.om.behaviour = {PRESERVE}
    /\ probe.mapped.ok
    /\ probe.mapped.val = ("out" :> IntV(1)) @@ ("z" :> IntV(0))

\* ------------------------------------------------------------------------
\* C24.  WARN_UNEXPECTED only adds a warning.  A sequential or keyed output
\* mapper on which CHILL or PRESERVE decides returns, with WARN_UNEXPECTED,
\* the mapping it returns without it; and a call emits a warning exactly
\* when WARN_UNEXPECTED is given and the shape of the input differs from the
\* declared keys: never on an exact match, never without the flag.
\* ------------------------------------------------------------------------
OutputCalled == probe.op = "output" /\ probe.at = "called"

ShapeMismatch ==
    IF probe.om.type = "sequential"
    THEN Len(probe.arg.v) # Len(probe.om.seqkeys)
    ELSE DOMAIN probe.arg.v # KeysOf(probe.om.dictkeys)

WithoutWarn(om) == [om EXCEPT !.behaviour = @ \ {WARN_UNEXPECTED}]

C24_WarnIsPureModifier ==
    OutputCalled =>
        \A r \in {probe.mapped} :
            /\ (ChillDecides(probe.om.behaviour) \/ PreserveDecides(probe.om.behaviour)) =>
                  /\ r.ok
                  /\ \A q \in {ApplyOutputMapper(WithoutWarn(probe.om), probe.arg)} :
                        q.ok /\ q.val = r.val /\ ~q.warned
                  /\ r.warned <=> (WARN_UNEXPECTED \in probe.om.behaviour /\ ShapeMismatch)
            /\ ~ShapeMismatch => ~r.warned
            /\ WARN_UNEXPECTED \notin probe.om.behaviour => ~r.warned

C24_Witness ==
    /\ OutputCalled
    /\ probe.om.type = "keyed"
    /\ probe.om.behaviour = {PRESERVE, WARN_UNEXPECTED}
    /\ probe.om.dictkeys = <<<<"x", "out">>>>
    /\ probe.arg = DictV([x |-> 1, z |-> 0])
    /\ probe.mapped.warned
    /\ probe.mapped.val = ("out" :> IntV(1)) @@ ("z" :> IntV(0))

\* ------------------------------------------------------------------------
\* C25.  The exit protocol tells a failure from a deliberate exit: when the
\* stage run by the loop of run() raised an exception other than
\* ExitPipeline, the record the loop logs for it is the one of the error
\* branch (the wrapping signal carries error = true); when the stage body
\* raised ExitPipeline with error = false, the record is the one of the
\* successful-exit branch.
\* ------------------------------------------------------------------------
StageJustFailed == last.op = "run" /\ last.via = "pipeline" /\ ~last.ok

C25_FailureTakesErrorBranch ==
    StageJustFailed =>
        /\ log # <<>>
        /\ last.exc.type # "ExitPipeline" =>
              log[Len(log)] = "run.exception: Exited pipeline with error state."
        /\ (last.exc.type = "ExitPipeline" /\ ~last.exc.error) =>
              log[Len(log)] = "run.info: Exited pipeline successfully."

\* ------------------------------------------------------------------------
\* C26.  A stage body that raises ExitPipeline ends the run early and
\* cleanly: no stage registered after it has its function invoked in that
\* run, and run() returns a mapping whose keys are exactly the stages that
\* completed before the exiting stage.
\* ------------------------------------------------------------------------
ExitedAt(i) == <<order[i], "ExitPipeline">> \in Range(errors)

C26_ExitEndsRun ==
    \A i \in 1..Len(order) :
        ExitedAt(i) =>
            /\ \A j \in (i + 1)..Len(order) : order[j] \notin Range(invoked)
            /\ Returned => DOMAIN result = {order[j] : j \in 1..(i - 1)} \cap completed

\* ------------------------------------------------------------------------
\* C27.  Registration through Pipeline.stage: the callable is stored under
\* the name given (the name keyword, or the string first argument) or, when
\* none is given, under the callable's own name; the registration returns
\* the very callable it was given; a callable registered under a name that
\* is already in the table replaces that entry and leaves the others alone;
\* and a call with both a name keyword and a string first argument raises
\* ValueError and leaves the table as it was.
\* ------------------------------------------------------------------------
RegisteredNow == reg.kind = "callable"

GivenName ==
    IF reg.name \notin {NoneV, StrV("")} THEN reg.name
    ELSE IF reg.noc.t = "str" THEN reg.noc ELSE NoneV

RegisteredKey == IF GivenName # NoneV THEN GivenName.v ELSE reg.func.name

BothNamesGiven == reg.op = "stage" /\ reg.name \notin {NoneV, StrV("")} /\ reg.noc.t = "str"

C27_RegisteredUnderName ==
    /\ RegisteredNow =>
          /\ RegisteredKey \in DOMAIN stages
          /\ stages[RegisteredKey].function = reg.func
          /\ reg.returned = FunV(reg.func)
          /\ DOMAIN stages = DOMAIN reg.pre \cup {RegisteredKey}
          /\ \A k \in DOMAIN reg.pre \ {RegisteredKey} : stages[k] = reg.pre[k]
    /\ BothNamesGiven =>
          /\ reg.kind = "raised"
          /\ reg.exc.type = "ValueError"
          /\ stages = reg.pre
    /\ reg.kind = "raised" => BothNamesGiven

\* The same, for the first callable a decorator is applied to.
C27_FirstUseRegisteredUnderName == reg.first => C27_RegisteredUnderName

\* ------------------------------------------------------------------------
\* C28.  Every run() has a scope of its own for the context cells, entered
\* when it starts and left when it ends: when a run starts, before its
\* first stage, the STAGE cell the stages will see holds what it held when
\* the pipeline was constructed, not a value an earlier run set; and the
\* cells of the caller's context are never changed by a run.
\* ------------------------------------------------------------------------
RunJustBegan == pc = "running" /\ attempted = <<>>

C28_RunHasOwnScope ==
    /\ RunJustBegan => ctx["STAGE"] = PipelineCtx(applydefaults)["STAGE"]
    /\ ambient = applydefaults

\* ------------------------------------------------------------------------
\* C29.  Two overlapping run() calls on one Pipeline share the has_run and
\* the outputs of its stages, so a dependency input of one run can resolve
\* to an output the other run recorded; with a Pipeline instance per run, or
\* with run() serialized by a mutex, this does not happen.  Here the runs of
\* the one pipeline are serialized, each starting after the one before has
\* ended: no dependency input of a stage that run_stage just ran has
\* resolved to an output that another run recorded.
\* ------------------------------------------------------------------------
\* Input i of the stage that run_stage just ran is a dependency on another
\* stage and has resolved to an output of that stage.
ResolvedToOutput(i) ==
    LET inp == last.pre.inputs[i]
        from == inp.bind.mapper.from_stage
    IN /\ inp.bind.mapper.type = "dependency"
       /\ inp.bind.source = UNBOUND
       /\ from \in DOMAIN stages
       /\ from # last.key
       /\ stages[from].has_run
       /\ inp.bind.mapper.from_output \in DOMAIN stages[from].outputs

C29_SerializedRunsShareNothing ==
    StageJustCalled =>
        \A i \in 1..Len(last.pre.inputs) :
            ResolvedToOutput(i) => recorded[last.pre.inputs[i].bind.mapper.from_stage] # "other"

\* ------------------------------------------------------------------------
\* C30.  _prepare_inputs_and_context resolves the inputs in the order of the
\* list into one mapping {as_arg: value}, of two inputs with one argument
\* name the later one giving the value, and collects into a second mapping
\* exactly the pairs of the inputs marked logged: an argument name is in it
\* only when a logged input has it, with the value of the last such input.
\* When an input fails to resolve, the call raises and returns no mapping.
\* ------------------------------------------------------------------------
PrepareCalled == probe.op = "prepare" /\ probe.at = "done"

\* What input i resolves to on its own.
Resolved(i) == InputBindingCall(probe.inputs[i].bind, applydefaults)

\* m is the dict the pairs of the inputs at the positions `among`, taken in
\* order, build up.
CollectedFrom(m, among) ==
    /\ DOMAIN m = {probe.inputs[i].as_arg : i \in among}
    /\ \A i \in among :
          (\A j \in among : j > i => probe.inputs[j].as_arg # probe.inputs[i].as_arg)
              => m[probe.inputs[i].as_arg] = Resolved(i).val

C30_PreparedAndLogged ==
    PrepareCalled =>
        \A r \in {probe.prep} :
        \A n \in {Len(probe.inputs)} :
            /\ r.ok <=> \A i \in 1..n : Resolved(i).ok
            /\ r.ok =>
                  /\ CollectedFrom(r.prepared, 1..n)
                  /\ CollectedFrom(r.logged, {i \in 1..n : probe.inputs[i].logged})
                  /\ \A i \in 1..n :
                        (\A j \in 1..n : probe.inputs[j].as_arg = probe.inputs[i].as_arg
                                            => ~probe.inputs[j].logged)
                            => probe.inputs[i].as_arg \notin DOMAIN r.logged
            /\ ~r.ok =>
                  \E i \in 1..n :
                      /\ ~Resolved(i).ok
                      /\ \A j \in 1..(i - 1) : Resolved(j).ok
                      /\ r.exc = Resolved(i).exc

C30_Witness ==
    /\ PrepareCalled
    /\ probe.inputs = <<known(IntV(1), "a", TRUE), known(IntV(2), "a", FALSE), known(IntV(1), "b", FALSE)>>
    /\ probe.prep.ok
    /\ probe.prep.prepared = ("a" :> IntV(2)) @@ ("b" :> IntV(1))
    /\ probe.prep.logged = ("a" :> IntV(1))

\* The values the store holds: Parameters.parameters or Variables.variables.
Stored(s) == IF s.t = "params" THEN s.v.parameters ELSE s.v.variables

\* C31: a Parameters object keeps its keys inside the declared set: every
\* stored key is in parameter_set; set and sets fail with
\* InvalidParameterException for any name outside the set; and a set or sets
\* that fails, one mixing declared and undeclared names included, leaves
\* the stored values as they were.
C31_KeysStayDeclared ==
    store.t = "params" =>
        /\ DOMAIN store.v.parameters \subseteq store.v.parameter_set
        /\ sop.op # "none" => store.v.parameter_set = sop.pre.v.parameter_set
        /\ (sop.op = "set" /\ sop.name \notin store.v.parameter_set) =>
              ~sop.ok /\ sop.exc.type = "InvalidParameterException"
        /\ (sop.op = "sets" /\ ~(DOMAIN sop.kwargs \subseteq store.v.parameter_set)) =>
              ~sop.ok /\ sop.exc.type = "InvalidParameterException"
        /\ (sop.op \in {"set", "sets"} /\ ~sop.ok) => Stored(store) = Stored(sop.pre)

C31_Witness ==
    /\ store.t = "params"
    /\ sop.op = "sets"
    /\ ~sop.ok
    /\ DOMAIN sop.kwargs \cap store.v.parameter_set # {}
    /\ DOMAIN store.v.parameters # {}
    /\ sop.n = MaxStoreOps

\* The sentinel of the store's class.
UnsetOf(s) == IF s.t = "params" THEN UNSET_PARAMETER ELSE UNSET_VARIABLE

\* get was called with a name the store accepts: any name for Variables, a
\* declared one for Parameters.
GotDeclared ==
    /\ sop.op = "get"
    /\ sop.pre.t = "params" => sop.name \in sop.pre.v.parameter_set

\* C32: get(name, default, must=True) fails exactly when the key is absent:
\* a key that holds a value, one equal to the default given or to the unset
\* sentinel included, is returned; with must=False an absent key yields the
\* default given (the sentinel when none is given).
C32_MustFailsOnlyWhenAbsent ==
    GotDeclared =>
        IF sop.name \in DOMAIN Stored(sop.pre)
        THEN sop.ok /\ sop.val = Stored(sop.pre)[sop.name]
        ELSE IF sop.must THEN ~sop.ok
             ELSE sop.ok /\ sop.val = (IF sop.default # NoneV THEN sop.default
                                                              ELSE UnsetOf(sop.pre))

\* What does hold of get: it fails under must exactly when the value found,
\* or the fallback for an absent key, equals the fallback.
C32_MustFailsOnFallbackValue ==
    GotDeclared =>
        \A check \in {IF sop.default # NoneV THEN sop.default ELSE UnsetOf(sop.pre)} :
        \A value \in {IF sop.name \in DOMAIN Stored(sop.pre) THEN Stored(sop.pre)[sop.name]
                                                              ELSE check} :
            IF sop.must /\ value = check THEN ~sop.ok ELSE sop.ok /\ sop.val = value

\* C33: reset() completes from any state and leaves the store holding
\* exactly its defaults; Parameters.reset() leaves parameter_set as it was.
C33_ResetRestoresDefaults ==
    sop.op = "reset" =>
        /\ sop.ok
        /\ Stored(store) = store.v.defaults
        /\ store.t = "params" => store.v.parameter_set = sop.pre.v.parameter_set

\* What does hold of reset: it raises AttributeError and changes nothing.
C33_ResetRaises ==
    sop.op = "reset" => ~sop.ok /\ sop.exc.type = "AttributeError" /\ store = sop.pre

\* C36: an input param(name, default=d, required=False) never fails to
\* resolve inside a run of the pipeline: it yields the parameter's value when
\* one is set and d otherwise, for a declared name without a value and for a
\* name that was never declared.
C36_OptionalParamAlwaysResolves ==
    (sop.op = "input" /\ sop.pre.t = "params" /\ ~sop.required) =>
        /\ sop.ok
        /\ sop.val = (IF sop.name \in DOMAIN sop.pre.v.parameters
                      THEN sop.pre.v.parameters[sop.name] ELSE sop.default)

\* What does hold of the optional param input: for a declared name and a
\* default other than None it resolves to the value set or to the default.
C36_DeclaredParamResolves ==
    (sop.op = "input" /\ sop.pre.t = "params" /\ ~sop.required
       /\ sop.name \in sop.pre.v.parameter_set /\ sop.default # NoneV) =>
        /\ sop.ok
        /\ sop.val = (IF sop.name \in DOMAIN sop.pre.v.parameters
                      THEN sop.pre.v.parameters[sop.name] ELSE sop.default)

\* The Stage.run call that run_stage just made, made again on the
\* pipeline's own table as it was before the call.
OnOwnTable ==
    StageRun(last.pre, last.kwargs,
             [SetStage(ctx, last.key) EXCEPT
                 !["STAGES"] = SetTo(TableV([stages EXCEPT ![last.key] = last.pre]))])

\* C34: constructing and running pipelines leaves the caller's context as it
\* was: after construction and after every run, returned or raised, of the
\* pipeline or of a second pipeline, the cells PIPELINE, VARIABLES,
\* PARAMETERS, STAGES and STAGE of the caller hold what they held before.
\* Inside the pipeline's run the STAGES cell is the pipeline's own table,
\* also when a second pipeline with stages of the same names exists or has
\* run: every stage call receives what it receives from that table.
C34_AmbientUntouched ==
    /\ \A c \in {"PIPELINE", "VARIABLES", "PARAMETERS", "STAGES", "STAGE"} :
          ambient[c] = applydefaults[c]
    /\ ctx["STAGES"] = SetTo(RefV("self.stages"))
    /\ (last.op = "run" /\ last.via = "pipeline") =>
          \A own \in {OnOwnTable} :
              /\ own.ok = last.ok
              /\ own.received = last.received
              /\ own.val = last.val

C34_Witness ==
    /\ other.runs > 0
    /\ pc = "idle"
    /\ outcome = "returned"
    /\ errors # <<>>
    /\ last.op = "run" /\ last.via = "pipeline" /\ last.ok
    /\ \E i \in 1..Len(last.pre.inputs) : ResolvedToOutput(i)

\* A stage of the current run has errored: its Stage.run raised something
\* other than ExitPipeline.
Errored(key) == \E e \in Range(errors) : e[1] = key /\ e[2] # "ExitPipeline"

\* C35: after a run in which a stage errored, the STAGE cell of the
\* pipeline's context names the stage that errored.
C35_StageCellNamesErroredStage ==
    (Returned /\ \E key \in DOMAIN stages : Errored(key)) =>
        \E key \in DOMAIN stages : Errored(key) /\ ctx["STAGE"] = SetTo(RefV(key))

\* What does hold of the STAGE cell: it is never reset, and names the stage
\* that run_stage was last called for.
C35_StageCellNamesLastStage ==
    attempted # <<>> => ctx["STAGE"] = SetTo(RefV(attempted[Len(attempted)]))

C37_LoggedArgumentsAreReceived ==
    (last.op = "run" /\ last.invoked) => DOMAIN last.logctx \subseteq DOMAIN last.received

\* The name an entry of the input dict is to be stored under: the name its
\* key is renamed to, or its own key when `keys` does not declare it.
DestOf(keys, k) ==
    IF k \in KeysOf(keys) THEN keys[CHOOSE i \in 1..Len(keys) : keys[i][1] = k][2] ELSE k

\* The result holds one entry per key of x, under that key's name and with
\* that key's value.
OneEntryPerKey(r, keys, x) ==
    /\ r.ok
    /\ DOMAIN r.val = {DestOf(keys, k) : k \in DOMAIN x}
    /\ Cardinality(DOMAIN r.val) = Cardinality(DOMAIN x)
    /\ \A k \in DOMAIN x : r.val[DestOf(keys, k)] = IntV(x[k])

\* C38 as stated: a KeyedOutputMapper under PRESERVE loses no value: for
\* every input dict the result has exactly one entry per input key, also
\* when an undeclared input key equals the name a declared key is renamed to
\* and when two declared keys are renamed to one name.
C38_PreserveLosesNothing ==
    (KeyedOutputCalled /\ PreserveDecides(probe.om.behaviour)) =>
        OneEntryPerKey(probe.mapped, probe.om.dictkeys, probe.arg.v)

\* C38, amended: a KeyedOutputMapper under PRESERVE loses no value as long
\* as no two keys of the input dict are to be stored under one name; then
\* the result has exactly one entry per input key, under the renamed key for
\* a declared key and under the original key otherwise.
C38_PreserveLosesNothingWithoutConflict ==
    (KeyedOutputCalled /\ PreserveDecides(probe.om.behaviour)) =>
        \A keys \in {probe.om.dictkeys} :
        \A x \in {probe.arg.v} :
            (\A k1, k2 \in DOMAIN x : k1 # k2 => DestOf(keys, k1) # DestOf(keys, k2))
                => OneEntryPerKey(probe.mapped, keys, x)

C38_Witness ==
    /\ KeyedOutputCalled
    /\ probe.om.dictkeys = <<<<"x", "out">>>>
    /\ probe.arg = SampleDict
    /\ probe.om.behaviour = {PRESERVE}
    /\ probe.mapped.ok
    /\ probe.mapped.val = ("out" :> IntV(1)) @@ ("y" :> IntV(2))

\* The stage under `key` when the current run began is a replacement: a
\* callable registered again under that name.
ReplacedAtStart(key) == key \in DOMAIN start /\ start[key].function.name # key

\* C39: registering a stage again under a name that exists keeps the name's
\* place in the execution order: the order of the keys never changes, every
\* later run() calls the stages in that order, so the replacement runs where
\* the replaced stage ran; and when a later stage depends on the name, the
\* replacement has been run before it in the same run and, when it
\* completed, holds outputs recorded by this run.
C39_ReplacementKeepsPlace ==
    /\ order = StageKeys
    /\ DOMAIN stages = Range(order)
    /\ pc = "running" =>
          /\ Len(attempted) <= Len(order)
          /\ \A i \in 1..Len(attempted) : attempted[i] = order[i]
    /\ (pc = "running" /\ last.op = "run" /\ last.via = "pipeline") =>
          \A i \in 1..Len(last.pre.inputs) :
              \A from \in {last.pre.inputs[i].bind.mapper.from_stage} :
                  (last.pre.inputs[i].bind.mapper.type = "dependency"
                     /\ ReplacedAtStart(from) /\ from # last.key
                     /\ \E j \in 1..Len(order) : \E l \in (j + 1)..Len(order) :
                            order[j] = from /\ order[l] = last.key) =>
                      /\ \E j \in 1..(Len(attempted) - 1) : attempted[j] = from
                      /\ from \in completed =>
                            /\ recorded[from] = "this"
                            /\ stages[from].has_run

C39_Witness ==
    /\ reg.n > 0
    /\ pc = "running"
    /\ last.op = "run" /\ last.via = "pipeline" /\ last.ok /\ last.key = "C"
    /\ ReplacedAtStart("A") /\ ReplacedAtStart("B")
    /\ start["B"].function.name = "g"
    /\ {"A", "B"} \subseteq completed
    /\ prev.valid = FALSE /\ outcome = "none"
    /\ \A i \in 1..Len(last.pre.inputs) : ResolvedToOutput(i)

TypeOK == pc \in {"idle", "running"} /\ idx \in 1..(Len(order) + 1)
====
